---- MODULE Spec2Model ----
(***************************************************************************)
(* Model of the position-tracking order executor of crypto_trader_clean    *)
(* (src/src/core/order_executor.py, class OrderExecutor, first draft in    *)
(* the file: execute_order / adjust_position / _update_position).          *)
(*                                                                         *)
(* Numbers.  The executor receives Python floats, converts them with       *)
(* Decimal(str(x)) and keeps the ledger in decimal.Decimal under the       *)
(* default context (prec = 28, ROUND_HALF_EVEN).  A Decimal is modelled by *)
(* its value c * 10^e as the record [c |-> c, e |-> e], normalised so that *)
(* c has no trailing zero (Decimal's == is numeric, so 2.0 and 2 are the   *)
(* same value).  Every arithmetic operation computes the exact result and  *)
(* rounds it half-even to DecimalPrec significant digits, as the context   *)
(* does.  The precision is scaled down from 28 to DecimalPrec digits, and  *)
(* the 17 significant digits of a float's shortest repr to FloatDigits, so *)
(* that the coefficients fit the model checker's integers.                 *)
(***************************************************************************)
EXTENDS Integers, Sequences, FiniteSets, TLC

\* ------------------------------------------------------------------ bounds
DecimalPrec  == 3     \* significant digits of the Decimal context (28 in CPython)
FloatDigits  == 1     \* significant digits a float keeps through str() (17 for a double)
MaxFills     == 3     \* filled orders per behaviour of SpecLedger
MaxCallFills == 2     \* filled orders per behaviour of Spec
MaxHeartbeats == 1    \* heartbeat messages per behaviour of SpecClient
MaxOrders    == 2     \* client_order_ids per behaviour of SpecBook

\* --------------------------------------------------------------- constants
retry_attempts == 3   \* OrderExecutor.__init__: self.retry_attempts
retry_delay    == 1   \* OrderExecutor.__init__: self.retry_delay (seconds)
rsi_oversold   == 30  \* run_rsi_strategy: the default thresholds
rsi_overbought == 70

\* ----------------------------------------------------------- configuration
\* strategy_config of the modelled deployment (the defaults are 5, 20, 14)
short_window == 1     \* the windows of the two moving averages
long_window  == 2
rsi_window   == 1     \* the period of the RSI

\* ------------------------------------------------------- decimal arithmetic
RECURSIVE Pow10(_)
Pow10(n) == IF n <= 0 THEN 1 ELSE 10 * Pow10(n - 1)

RECURSIVE Digits(_)
Digits(c) == IF c < 10 THEN 1 ELSE 1 + Digits(c \div 10)

RECURSIVE Norm(_, _)
Norm(c, e) ==
    IF c = 0 THEN [c |-> 0, e |-> 0]
    ELSE IF c % 10 = 0 THEN Norm(c \div 10, e + 1)
    ELSE [c |-> c, e |-> e]

Zero == [c |-> 0, e |-> 0]

\* number of low digits the context drops from coefficient c
Dropped(c, prec) == IF Digits(c) > prec THEN Digits(c) - prec ELSE 0

\* TRUE when rounding c (with a non-zero tail below it when sticky) loses
\* information, i.e. when the context would signal Inexact
Inexact(c, sticky, prec) ==
    sticky \/ (Dropped(c, prec) > 0 /\ c % Pow10(Dropped(c, prec)) # 0)

\* ROUND_HALF_EVEN to prec significant digits of the exact value
\* c * 10^e (+ a non-zero tail smaller than one unit of c when sticky)
RoundHalfEven(c, e, sticky, prec) ==
    LET d    == Dropped(c, prec)
        q    == c \div Pow10(d)
        r    == c % Pow10(d)
        half == 5 * Pow10(d - 1)
        up   == d > 0 /\ (r > half \/ (r = half /\ (sticky \/ q % 2 = 1)))
    IN  Norm(IF up THEN q + 1 ELSE q, e + d)

MinExp(a, b) == IF a.e < b.e THEN a.e ELSE b.e

\* coefficient of a at exponent m (m <= a.e)
Coef(a, m) == a.c * Pow10(a.e - m)

DecEq(a, b) == Coef(a, MinExp(a, b)) = Coef(b, MinExp(a, b))
DecLt(a, b) == Coef(a, MinExp(a, b)) < Coef(b, MinExp(a, b))
DecGt(a, b) == DecLt(b, a)
DecLe(a, b) == ~DecLt(b, a)

\* Decimal.__add__ / __sub__ / __mul__ / __truediv__ under the context
DecAdd(a, b) ==
    RoundHalfEven(Coef(a, MinExp(a, b)) + Coef(b, MinExp(a, b)),
                  MinExp(a, b), FALSE, DecimalPrec)
AddInexact(a, b) ==
    Inexact(Coef(a, MinExp(a, b)) + Coef(b, MinExp(a, b)), FALSE, DecimalPrec)

\* only used with a >= b (a sell never exceeds the position)
DecSub(a, b) ==
    RoundHalfEven(Coef(a, MinExp(a, b)) - Coef(b, MinExp(a, b)),
                  MinExp(a, b), FALSE, DecimalPrec)
SubInexact(a, b) ==
    Inexact(Coef(a, MinExp(a, b)) - Coef(b, MinExp(a, b)), FALSE, DecimalPrec)

DecMul(a, b) == RoundHalfEven(a.c * b.c, a.e + b.e, FALSE, DecimalPrec)
MulInexact(a, b) == Inexact(a.c * b.c, FALSE, DecimalPrec)

\* the numerator is scaled so that the integer quotient has at least
\* DecimalPrec + 1 digits; the remainder is the sticky tail
DivShift(a, b) ==
    IF DecimalPrec + 1 + Digits(b.c) > Digits(a.c)
    THEN DecimalPrec + 1 + Digits(b.c) - Digits(a.c) ELSE 0
DecDiv(a, b) ==
    LET k   == DivShift(a, b)
        num == a.c * Pow10(k)
    IN  IF a.c = 0 THEN Zero
        ELSE RoundHalfEven(num \div b.c, a.e - b.e - k, num % b.c # 0, DecimalPrec)
DivInexact(a, b) ==
    LET num == a.c * Pow10(DivShift(a, b))
    IN  a.c # 0 /\ Inexact(num \div b.c, num % b.c # 0, DecimalPrec)

DecAbsDiff(a, b) == IF DecLt(a, b) THEN DecSub(b, a) ELSE DecSub(a, b)


\* -------------------------------------------------------------- conversions
\* A float is modelled by the decimal value of its shortest repr, which is
\* what str() prints: Decimal(str(x)) reads that value exactly.
DecimalOfFloat(x) == Norm(x.c, x.e)

\* float(d): the nearest float; a float keeps FloatDigits significant digits
FloatOfDecimal(d) == RoundHalfEven(d.c, d.e, FALSE, FloatDigits)

\* ------------------------------------------------------------------ inputs
Pairs    == {"BTC-USD", "ETH-USD"}
Half     == [c |-> 5, e |-> -1]
One      == [c |-> 1, e |-> 0]
Two      == [c |-> 2, e |-> 0]
MinusOne == [c |-> -1, e |-> 0]

\* what one call of the exchange gateway (buy / sell) does
GatewayFailures == {"ExchangeError", "ValidationError"}
AllOk == [i \in 1..retry_attempts |-> "ok"]

\* a gateway that raises exc on the first k calls of an order, then succeeds
FailsFirst(k, exc) == [i \in 1..retry_attempts |-> IF i <= k THEN exc ELSE "ok"]
GatewayScripts == {FailsFirst(k, exc) : k \in 0..retry_attempts, exc \in GatewayFailures}

\* ------------------------------------------------------------------- state
VARIABLES
    positions,     \* OrderExecutor.positions: pair -> [size, entry_price]
    risk_manager,  \* OrderExecutor.risk_manager: "none" or "configured"
    fills,         \* number of filled orders so far
    buys,          \* per pair: the buys since the position was last flat
    last,          \* the last call: its arguments, the order it placed (side,
                   \* size), the error execute_order raised, its outcome
    core,          \* TradingCore: is_running, daily_stats and the price feed
                   \* that get_current_price reads
    client,        \* CoinbaseClient: websocket, connected, prices, ticker_data,
                   \* and the state of its receive loop
    loop,          \* TradingCore at run time: price_data, the configured
                   \* max_position_size, the trading-loop task, the streaming
                   \* task and the receive task it spawns
    book,          \* the order-book OrderExecutor: open_orders, order_history
    pending,       \* the execute_order coroutines of concurrent callers: where
                   \* each one is suspended and the order it carries
    ws             \* WebsocketClient: websocket, heartbeat_task, the sockets it
                   \* opened and the heartbeat tasks it created

vars == <<positions, risk_manager, fills, buys, last, core, client, loop, book, pending, ws>>

ZeroPosition == [size |-> Zero, entry_price |-> Zero]

\* OrderExecutor.get_position
get_position(pos, trading_pair) ==
    IF trading_pair \in DOMAIN pos THEN pos[trading_pair] ELSE ZeroPosition

\* a validation that lets a size of zero through
validate_order_params_ZeroSize(side, size, price, trading_pair) ==
    IF side \notin {"buy", "sell"} THEN "ValidationError"
    ELSE IF size.c < 0 THEN "ValidationError"
    ELSE IF price.c <= 0 THEN "ValidationError"
    ELSE IF trading_pair = "" THEN "ValidationError"
    ELSE "ok"

\* OrderExecutor._validate_order_params: the error it raises, or "ok"
validate_order_params(side, size, price, trading_pair) ==
    IF side \notin {"buy", "sell"} THEN "ValidationError"
    ELSE IF size.c <= 0 THEN "ValidationError"
    ELSE IF price.c <= 0 THEN "ValidationError"
    ELSE IF trading_pair = "" THEN "ValidationError"
    ELSE "ok"

\* a position limit that is applied only to the pairs in the ledger
InsufficientPosition_TrackedOnly(pos, side, size, trading_pair) ==
    /\ side = "sell"
    /\ trading_pair \in DOMAIN pos
    /\ DecGt(DecimalOfFloat(size), pos[trading_pair].size)

\* execute_order, the position limit of a sell order
InsufficientPosition(pos, side, size, trading_pair) ==
    /\ side = "sell"
    /\ DecGt(DecimalOfFloat(size), get_position(pos, trading_pair).size)

\* execute_order, the risk check: the number of calls of check_order_risk
RiskCalls(rm) == IF rm = "configured" THEN 1 ELSE 0
\* a risk check whose answer is ignored
RiskRejects_Ignored(rm, risk_ok) == FALSE

\* ... and whether it makes the order fail
RiskRejects(rm, risk_ok) == rm = "configured" /\ ~risk_ok

\* a wrapper that gives up at the first failure
execute_with_retry_NoRetry(gw, attempt) ==
    IF gw[attempt + 1] = "ok"
    THEN [result |-> "ok", calls |-> 1, sleeps |-> <<>>]
    ELSE [result |-> "OrderExecutionError", calls |-> 1, sleeps |-> <<>>]

\* a wrapper that waits retry_delay after every failure, the last included
RECURSIVE execute_with_retry_FlatDelay(_, _)
execute_with_retry_FlatDelay(gw, attempt) ==
    IF attempt >= retry_attempts
    THEN [result |-> "OrderExecutionError", calls |-> 0, sleeps |-> <<>>]
    ELSE IF gw[attempt + 1] = "ok"
    THEN [result |-> "ok", calls |-> 1, sleeps |-> <<>>]
    ELSE LET rest == execute_with_retry_FlatDelay(gw, attempt + 1)
         IN  [result |-> rest.result,
              calls  |-> 1 + rest.calls,
              sleeps |-> <<retry_delay>> \o rest.sleeps]

\* OrderExecutor._execute_with_retry, from attempt number `attempt` (0-based)
\* on: the number of gateway calls made, the sleeps taken and the result.
\* The loop catches Exception, so whatever the gateway raises is retried.
RECURSIVE execute_with_retry(_, _)
execute_with_retry(gw, attempt) ==
    IF attempt >= retry_attempts
    THEN [result |-> "OrderExecutionError", calls |-> 0, sleeps |-> <<>>]
    ELSE IF gw[attempt + 1] = "ok"
    THEN [result |-> "ok", calls |-> 1, sleeps |-> <<>>]
    ELSE LET rest == execute_with_retry(gw, attempt + 1)
         IN  [result |-> rest.result,
              calls  |-> 1 + rest.calls,
              sleeps |-> (IF attempt < retry_attempts - 1
                          THEN <<retry_delay * (attempt + 1)>> ELSE <<>>)
                         \o rest.sleeps]

\* a buy that averages the two prices without their sizes
update_buy_Unweighted(position, size_dec, price_dec) ==
    [size |-> DecAdd(position.size, size_dec),
     entry_price |-> IF DecEq(position.size, Zero) THEN price_dec
                     ELSE DecDiv(DecAdd(position.entry_price, price_dec), Two)]

\* a buy that writes its own fill over the position it found
update_buy_Overwrites(position, size_dec, price_dec) ==
    [size |-> size_dec, entry_price |-> price_dec]

\* _update_position, side == 'buy'
update_buy(position, size_dec, price_dec) ==
    LET new_size    == DecAdd(position.size, size_dec)
        total_value == DecAdd(DecMul(position.size, position.entry_price),
                              DecMul(size_dec, price_dec))
    IN  [size |-> new_size,
         entry_price |-> IF DecEq(position.size, Zero) THEN price_dec
                         ELSE DecDiv(total_value, new_size)]

\* a sell that never resets the entry price
update_sell_KeepsEntry(position, size_dec) ==
    [size |-> DecSub(position.size, size_dec), entry_price |-> position.entry_price]

\* a sell that always resets the entry price
update_sell_ClearsEntry(position, size_dec) ==
    [size |-> DecSub(position.size, size_dec), entry_price |-> Zero]

\* _update_position, side == 'sell'
update_sell(position, size_dec) ==
    LET new_size == DecSub(position.size, size_dec)
    IN  [size |-> new_size,
         entry_price |-> IF DecEq(new_size, Zero) THEN Zero
                         ELSE position.entry_price]

\* an update that rebuilds the ledger with the traded pair only
update_position_OnlyPair(pos, trading_pair, side, size, price) ==
    [p \in {trading_pair} |->
        IF side = "buy"
        THEN update_buy(get_position(pos, trading_pair),
                        DecimalOfFloat(size), DecimalOfFloat(price))
        ELSE update_sell(get_position(pos, trading_pair), DecimalOfFloat(size))]

\* OrderExecutor._update_position: the ledger after the fill
update_position(pos, trading_pair, side, size, price) ==
    [p \in DOMAIN pos \cup {trading_pair} |->
        IF p # trading_pair THEN pos[p]
        ELSE IF side = "buy"
        THEN update_buy(get_position(pos, trading_pair),
                        DecimalOfFloat(size), DecimalOfFloat(price))
        ELSE update_sell(get_position(pos, trading_pair), DecimalOfFloat(size))]

\* the result of an execute_order that raises exc
Raises(exc, pos, risk_calls, retry) ==
    [outcome |-> exc, positions |-> pos, risk_calls |-> risk_calls,
     gateway_calls |-> retry.calls, sleeps |-> retry.sleeps]
NotSubmitted == [calls |-> 0, sleeps |-> <<>>]

\* OrderExecutor.execute_order(side, size, price, trading_pair) on ledger pos
\* with the given answer of the risk manager and behaviour of the gateway
execute_order(pos, rm, side, size, price, trading_pair, risk_ok, gw) ==
    IF validate_order_params(side, size, price, trading_pair) # "ok"
    THEN Raises("ValidationError", pos, 0, NotSubmitted)
    ELSE IF InsufficientPosition(pos, side, size, trading_pair)
    THEN Raises("PositionError", pos, 0, NotSubmitted)
    ELSE IF RiskRejects(rm, risk_ok)
    THEN Raises("ValidationError", pos, RiskCalls(rm), NotSubmitted)
    ELSE LET result == execute_with_retry(gw, 0)
         IN  IF result.result # "ok"
             THEN Raises("OrderExecutionError", pos, RiskCalls(rm), result)
             ELSE [outcome |-> "filled",
                   positions |-> update_position(pos, trading_pair, side, size, price),
                   risk_calls |-> RiskCalls(rm),
                   gateway_calls |-> result.calls,
                   sleeps |-> result.sleeps]

\* a comparison that never finds the position on target
NoAdjustmentNeeded_Never(current_size, target_size_dec) == FALSE

\* adjust_position: `current_size == target_size_dec`
NoAdjustmentNeeded(current_size, target_size_dec) == DecEq(current_size, target_size_dec)

\* adjust_position: the side and the size of the order it places
AdjustSide(pos, trading_pair, target_size) ==
    IF DecGt(DecimalOfFloat(target_size), get_position(pos, trading_pair).size)
    THEN "buy" ELSE "sell"
AdjustSize(pos, trading_pair, target_size) ==
    FloatOfDecimal(DecAbsDiff(DecimalOfFloat(target_size),
                              get_position(pos, trading_pair).size))

\* what adjust_position makes of the result of its execute_order: every
\* exception is caught and raised again as OrderExecutionError
Adjusted(order) ==
    [outcome |-> IF order.outcome = "filled" THEN "filled" ELSE "OrderExecutionError",
     raised  |-> IF order.outcome = "filled" THEN "none" ELSE order.outcome,
     positions |-> order.positions, risk_calls |-> order.risk_calls,
     gateway_calls |-> order.gateway_calls, sleeps |-> order.sleeps, orders |-> 1]

\* OrderExecutor.adjust_position(trading_pair, target_size, current_price)
adjust_position(pos, rm, trading_pair, target_size, current_price, risk_ok, gw) ==
    IF NoAdjustmentNeeded(get_position(pos, trading_pair).size, DecimalOfFloat(target_size))
    THEN [outcome |-> "None", raised |-> "none", positions |-> pos,
          risk_calls |-> 0, gateway_calls |-> 0, sleeps |-> <<>>, orders |-> 0]
    ELSE Adjusted(execute_order(pos, rm, AdjustSide(pos, trading_pair, target_size),
                                AdjustSize(pos, trading_pair, target_size),
                                current_price, trading_pair, risk_ok, gw))

\* ------------------------------------------------- history of the buys
\* exact totals, kept as integers: sizes in tenths, values in hundredths
SizeTenths(size) == size.c * Pow10(size.e + 1)
ValueHundredths(size, price) == size.c * price.c * Pow10(size.e + price.e + 2)

NoBuys == [n |-> 0, sum_size |-> 0, sum_value |-> 0, exact |-> TRUE, sold |-> FALSE]

\* TRUE when the buy branch of _update_position rounds one of its results
BuyInexact(position, size_dec, price_dec) ==
    LET held   == DecMul(position.size, position.entry_price)
        bought == DecMul(size_dec, price_dec)
    IN  \/ AddInexact(position.size, size_dec)
        \/ /\ ~DecEq(position.size, Zero)
           /\ \/ MulInexact(position.size, position.entry_price)
              \/ MulInexact(size_dec, price_dec)
              \/ AddInexact(held, bought)
              \/ DivInexact(DecAdd(held, bought), DecAdd(position.size, size_dec))

\* the record of the buys of one pair after a fill of (side, size, price)
\* that found the pair at position `before` and left it at `after`:
\* a buy on a flat position starts a new record, a sell that does not
\* close the position marks the record
RecordFill(b, before, after, side, size, price) ==
    IF side = "sell"
    THEN IF DecEq(after.size, Zero) THEN NoBuys ELSE [b EXCEPT !.sold = TRUE]
    ELSE IF DecEq(before.size, Zero)
    THEN [n |-> 1, sum_size |-> SizeTenths(size),
          sum_value |-> ValueHundredths(size, price),
          exact |-> ~BuyInexact(before, DecimalOfFloat(size), DecimalOfFloat(price)),
          sold |-> FALSE]
    ELSE [n         |-> b.n + 1,
          sum_size  |-> b.sum_size + SizeTenths(size),
          sum_value |-> b.sum_value + ValueHundredths(size, price),
          exact     |-> b.exact /\
                        ~BuyInexact(before, DecimalOfFloat(size), DecimalOfFloat(price)),
          sold      |-> b.sold]

\* ----------------------------------------------------------------- actions
NoCall ==
    [op |-> "none", side |-> "", size |-> Zero, price |-> Zero, pair |-> "",
     target |-> Zero, outcome |-> "None", raised |-> "none",
     risk_calls |-> 0, risk_answer |-> "none",
     gateway_calls |-> 0, script |-> AllOk, sleeps |-> <<>>, orders |-> 0]

\* CoinbaseClient.__init__; receiving is the state of the receive_data loop
\* and sent the messages written to the websocket since the last connect()
InitClient ==
    [websocket |-> "none", connected |-> FALSE,
     prices |-> [p \in {} |-> Zero], ticker_data |-> [p \in {} |-> Zero],
     heartbeats |-> 0, receiving |-> "idle", sent |-> <<>>]

\* TradingCore._initialize_trading_state; the price feed is the
\* CoinbaseStreaming object that __init__ builds
InitCore ==
    [is_running |-> FALSE, trades |-> 0, volume |-> Zero, pnl |-> Zero,
     feed |-> "CoinbaseStreaming"]

\* TradingCore.__init__ and _initialize_trading_state: no price history, no
\* task started; config.trading_pairs and risk_config.max_position_size as
\* loaded from the configuration
InitLoop ==
    [price_data |-> [p \in {} |-> <<>>], max_position_size |-> One,
     pc |-> "none", pair |-> 1, evaluated |-> {},
     streaming_task |-> "none", receive_task |-> "none", shut_down |-> FALSE]

\* the order-book OrderExecutor before its construction
InitBook ==
    [mode |-> "none", open_orders |-> [i \in {} |-> 0],
     order_history |-> [i \in {} |-> 0], created |-> 0, max_open_orders |-> 0]

\* a caller that is not inside execute_order
NoTask ==
    [pc |-> "idle", side |-> "", size |-> Zero, price |-> Zero, attempt |-> 0,
     overlap |-> <<>>]

\* the concurrent callers of one executor
Callers == {1, 2}

InitPending == [t \in Callers |-> NoTask]

\* WebsocketClient.__init__: no socket, no heartbeat task; sockets and tasks
\* are numbered in the order of their creation, 0 stands for None
InitWs ==
    [websocket |-> 0, heartbeat_task |-> 0, sockets |-> <<>>, tasks |-> <<>>,
     closed |-> FALSE]

Init ==
    /\ positions = [p \in {} |-> ZeroPosition]
    /\ risk_manager \in {"none", "configured"}
    /\ fills = 0
    /\ buys = [p \in Pairs |-> NoBuys]
    /\ last = NoCall
    /\ core = InitCore
    /\ client = InitClient
    /\ loop = InitLoop
    /\ book = InitBook
    /\ pending = InitPending
    /\ ws = InitWs

\* the order passes validation and the position check
ReachesRiskCheck(pos, side, size, price, trading_pair) ==
    /\ validate_order_params(side, size, price, trading_pair) = "ok"
    /\ ~InsufficientPosition(pos, side, size, trading_pair)

\* A collaborator that the call does not consult has a single behaviour.
Consulted(reached, behaviours, default) == IF reached THEN behaviours ELSE {default}

RiskAnswer(risk_calls, risk_ok) ==
    IF risk_calls = 0 THEN "none" ELSE IF risk_ok THEN "true" ELSE "false"

\* the ledger, the counter and the history after a call with result r that
\* placed (or would have placed) the order (side, size, price)
Applied(r, trading_pair, side, size, price, max_fills) ==
    /\ r.outcome = "filled" => fills < max_fills
    /\ positions' = r.positions
    /\ fills' = IF r.outcome = "filled" THEN fills + 1 ELSE fills
    /\ buys' = IF r.outcome = "filled"
               THEN [buys EXCEPT ![trading_pair] =
                       RecordFill(@, get_position(positions, trading_pair),
                                  r.positions[trading_pair], side, size, price)]
               ELSE buys
    /\ UNCHANGED <<risk_manager, pending, ws, core, client, loop, book>>

\* a caller awaits execute_order(side, size, price, trading_pair), with
\* arguments, risk answers and gateway behaviours drawn from the given sets
ExecuteOrderCall(sides, sizes, prices, pairs, answers, scripts, max_fills) ==
    \E side \in sides, size \in sizes, price \in prices, trading_pair \in pairs :
    \E risk_ok \in Consulted(/\ ReachesRiskCheck(positions, side, size, price, trading_pair)
                             /\ risk_manager = "configured", answers, TRUE) :
    \E gw \in Consulted(/\ ReachesRiskCheck(positions, side, size, price, trading_pair)
                        /\ ~RiskRejects(risk_manager, risk_ok), scripts, AllOk) :
    \E r \in {execute_order(positions, risk_manager, side, size, price,
                            trading_pair, risk_ok, gw)} :
        /\ Applied(r, trading_pair, side, size, price, max_fills)
        /\ last' = [op |-> "execute_order", side |-> side, size |-> size,
                    price |-> price, pair |-> trading_pair, target |-> Zero,
                    outcome |-> r.outcome,
                    raised |-> IF r.outcome = "filled" THEN "none" ELSE r.outcome,
                    risk_calls |-> r.risk_calls,
                    risk_answer |-> RiskAnswer(r.risk_calls, risk_ok),
                    gateway_calls |-> r.gateway_calls, script |-> gw,
                    sleeps |-> r.sleeps, orders |-> 0]

\* a caller awaits adjust_position(trading_pair, target_size, current_price)
AdjustPositionCall(pairs, targets, prices, answers, scripts, max_fills) ==
    \E trading_pair \in pairs, target_size \in targets, current_price \in prices :
    \E side \in {AdjustSide(positions, trading_pair, target_size)} :
    \E size \in {AdjustSize(positions, trading_pair, target_size)} :
    \E reaches \in {/\ ~NoAdjustmentNeeded(get_position(positions, trading_pair).size,
                                           DecimalOfFloat(target_size))
                    /\ ReachesRiskCheck(positions, side, size, current_price, trading_pair)} :
    \E risk_ok \in Consulted(reaches /\ risk_manager = "configured", answers, TRUE) :
    \E gw \in Consulted(reaches /\ ~RiskRejects(risk_manager, risk_ok), scripts, AllOk) :
    \E r \in {adjust_position(positions, risk_manager, trading_pair, target_size,
                              current_price, risk_ok, gw)} :
        /\ Applied(r, trading_pair, side, size, current_price, max_fills)
        /\ last' = [op |-> "adjust_position",
                    side |-> IF r.orders = 1 THEN side ELSE "",
                    size |-> IF r.orders = 1 THEN size ELSE Zero,
                    price |-> current_price, pair |-> trading_pair,
                    target |-> target_size, outcome |-> r.outcome,
                    raised |-> r.raised, risk_calls |-> r.risk_calls,
                    risk_answer |-> RiskAnswer(r.risk_calls, risk_ok),
                    gateway_calls |-> r.gateway_calls, script |-> gw,
                    sleeps |-> r.sleeps, orders |-> r.orders]

\* ---- Spec: one executor, any arguments, any risk answer, any gateway
SideInputs   == {"buy", "sell", "hold"}
PairInputs   == Pairs \cup {""}
SizeInputs   == {MinusOne, Zero, One, Two}
PriceInputs  == {Zero, One}
TargetInputs == {MinusOne, Zero, One, Two}

ExecuteOrder ==
    ExecuteOrderCall(SideInputs, SizeInputs, PriceInputs, PairInputs,
                     BOOLEAN, GatewayScripts, MaxCallFills)
AdjustPosition ==
    AdjustPositionCall(PairInputs, TargetInputs, PriceInputs,
                       BOOLEAN, GatewayScripts, MaxCallFills)

Next == ExecuteOrder \/ AdjustPosition

Spec == Init /\ [][Next]_vars

\* ---- SpecLedger: longer sequences of trades on one pair with valid
\* arguments, a risk manager that approves and a gateway that accepts every
\* order
TradeSizes   == {Half, One, Two}
TradePrices  == {One, Two}
TradeTargets == {Zero, Half, One, Two}

TradePairs   == {"BTC-USD"}

Trade ==
    ExecuteOrderCall({"buy", "sell"}, TradeSizes, TradePrices, TradePairs,
                     {TRUE}, {AllOk}, MaxFills)
Rebalance ==
    AdjustPositionCall(TradePairs, TradeTargets, TradePrices, {TRUE}, {AllOk}, MaxFills)

NextLedger == Trade \/ Rebalance

SpecLedger == Init /\ [][NextLedger]_vars

\* ------------------------------------------------------------ TradingCore
\* TradingConfig.trading_pairs of the loaded configuration
ConfigPairs == Pairs

\* CoinbaseStreaming.__init__ assigns api_key, private_key, product_ids,
\* channels, websocket and url: the object has no attribute price_data
StreamingHasPriceData == FALSE

\* CoinbaseStreaming.get_current_price(trading_pair): the last price of the
\* pair in self.price_data, 0 for a pair that is not in it; reading the
\* missing attribute raises AttributeError
streaming_get_current_price(price_data, trading_pair) ==
    IF ~StreamingHasPriceData THEN [raises |-> "AttributeError", price |-> Zero]
    ELSE IF trading_pair \in DOMAIN price_data
    THEN [raises |-> "none", price |-> price_data[trading_pair]]
    ELSE [raises |-> "none", price |-> Zero]

\* the price a substituted feed returns (tests patch get_current_price)
StubPrice == One

\* TradingCore.get_current_price(trading_pair): every exception of the
\* streaming client is raised again as TradingException
core_get_current_price(c, trading_pair) ==
    IF c.feed = "stub" THEN [raises |-> "none", price |-> StubPrice]
    ELSE LET r == streaming_get_current_price(<<>>, trading_pair)
         IN  IF r.raises # "none" THEN [raises |-> "TradingException", price |-> Zero]
             ELSE r

\* execute_trade, the daily loss limit: RiskConfig has no attribute
\* daily_loss_limit, so getattr gives float('inf') and pnl < -inf is false
DailyLossLimitReached(pnl) == FALSE

\* execute_trade's handlers: ConfigurationError, OrderExecutionError and
\* ValueError are raised again, any other exception becomes TradingException
TradeHandler(exc) ==
    IF exc \in {"ConfigurationError", "OrderExecutionError", "ValueError"}
    THEN exc ELSE "TradingException"

\* _update_trading_state that counts the trade and adds only its size
update_trading_state_VolumeOfSize(c, size, price) ==
    [c EXCEPT !.trades = @ + 1,
              !.volume = DecAdd(@, DecimalOfFloat(size))]

\* TradingCore._update_trading_state(trade_result)
update_trading_state(c, size, price) ==
    [c EXCEPT !.trades = @ + 1,
              !.volume = DecAdd(@, DecMul(DecimalOfFloat(size), DecimalOfFloat(price)))]

\* the result of an execute_trade that raises exc before the executor is called
TradeRaises(exc, c, pos) ==
    [outcome |-> TradeHandler(exc), raised |-> "none", core |-> c, positions |-> pos,
     risk_calls |-> 0, gateway_calls |-> 0, sleeps |-> <<>>, orders |-> 0]

\* TradingCore.execute_trade(trading_pair, side, size, price)
execute_trade(c, pos, rm, trading_pair, side, size, price, risk_ok, gw) ==
    IF core_get_current_price(c, trading_pair).raises # "none"
    THEN TradeRaises(core_get_current_price(c, trading_pair).raises, c, pos)
    ELSE IF trading_pair \notin ConfigPairs
    THEN TradeRaises("ConfigurationError", c, pos)
    ELSE IF side \notin {"buy", "sell"}
    THEN TradeRaises("ValueError", c, pos)
    ELSE IF DailyLossLimitReached(c.pnl)
    THEN [outcome |-> "skipped", raised |-> "none",
          core |-> [c EXCEPT !.is_running = FALSE], positions |-> pos,
          risk_calls |-> 0, gateway_calls |-> 0, sleeps |-> <<>>, orders |-> 0]
    ELSE LET order == execute_order(pos, rm, side, size, price, trading_pair, risk_ok, gw)
         IN  [outcome |-> IF order.outcome = "filled" THEN "filled"
                          ELSE TradeHandler(order.outcome),
              raised  |-> IF order.outcome = "filled" THEN "none" ELSE order.outcome,
              core    |-> IF order.outcome = "filled"
                          THEN update_trading_state(c, size, price) ELSE c,
              positions |-> order.positions, risk_calls |-> order.risk_calls,
              gateway_calls |-> order.gateway_calls, sleeps |-> order.sleeps,
              orders |-> 1]

\* the order of an execute_trade reaches the risk check of the executor
TradeReachesRiskCheck(c, pos, side, size, price, trading_pair) ==
    /\ core_get_current_price(c, trading_pair).raises = "none"
    /\ trading_pair \in ConfigPairs
    /\ ~DailyLossLimitReached(c.pnl)
    /\ ReachesRiskCheck(pos, side, size, price, trading_pair)

\* a caller awaits execute_trade(trading_pair, side, size, price)
ExecuteTradeCall(sides, sizes, prices, pairs, answers, scripts, max_fills) ==
    \E side \in sides, size \in sizes, price \in prices, trading_pair \in pairs :
    \E reaches \in {TradeReachesRiskCheck(core, positions, side, size, price, trading_pair)} :
    \E risk_ok \in Consulted(reaches /\ risk_manager = "configured", answers, TRUE) :
    \E gw \in Consulted(reaches /\ ~RiskRejects(risk_manager, risk_ok), scripts, AllOk) :
    \E r \in {execute_trade(core, positions, risk_manager, trading_pair, side, size,
                            price, risk_ok, gw)} :
        /\ r.outcome = "filled" => fills < max_fills
        /\ positions' = r.positions
        /\ core' = r.core
        /\ fills' = IF r.outcome = "filled" THEN fills + 1 ELSE fills
        /\ buys' = IF r.outcome = "filled"
                   THEN [buys EXCEPT ![trading_pair] =
                           RecordFill(@, get_position(positions, trading_pair),
                                      r.positions[trading_pair], side, size, price)]
                   ELSE buys
        /\ UNCHANGED <<risk_manager, pending, ws, client, loop, book>>
        /\ last' = [op |-> "execute_trade", side |-> side, size |-> size,
                    price |-> price, pair |-> trading_pair, target |-> Zero,
                    outcome |-> r.outcome, raised |-> r.raised,
                    risk_calls |-> r.risk_calls,
                    risk_answer |-> RiskAnswer(r.risk_calls, risk_ok),
                    gateway_calls |-> r.gateway_calls, script |-> gw,
                    sleeps |-> r.sleeps, orders |-> r.orders]

\* the harness replaces the price feed of the TradingCore by a double, as the
\* tests of the repository do
SubstituteFeed ==
    /\ core.feed # "stub"
    /\ core' = [core EXCEPT !.feed = "stub"]
    /\ UNCHANGED <<positions, risk_manager, pending, ws, fills, buys, last, client, loop, book>>

\* ---- SpecCore: direct trades through TradingCore.execute_trade
ExecuteTrade ==
    ExecuteTradeCall(SideInputs, {Zero, One, Two}, PriceInputs, PairInputs, BOOLEAN,
                     {AllOk, FailsFirst(retry_attempts, "ExchangeError")}, MaxCallFills)

\* CoinbaseStreaming._handle_ticker(message), reached from process_message for
\* a message of type ticker: it reads product_id, price and time and logs
\* them; no attribute of the client is assigned
streaming_handle_ticker(c, product_id, price) == c

\* the streaming client of the TradingCore processes a ticker message
StreamTicker ==
    \E product_id \in Pairs, price \in {One, Two} :
        /\ core' = streaming_handle_ticker(core, product_id, price)
        /\ last' = [op |-> "stream_ticker", pair |-> product_id, value |-> price,
                    outcome |-> "returned"]
        /\ UNCHANGED <<positions, risk_manager, pending, ws, fills, buys, client, loop, book>>

\* a caller (the strategy loop) reads TradingCore.get_current_price(pair)
CoreGetCurrentPrice ==
    \E trading_pair \in Pairs :
    \E r \in {core_get_current_price(core, trading_pair)} :
        /\ last' = [op |-> "core_get_current_price", pair |-> trading_pair,
                    value |-> r.price,
                    outcome |-> IF r.raises = "none" THEN "returned" ELSE r.raises]
        /\ UNCHANGED <<positions, risk_manager, pending, ws, fills, buys, core, client, loop, book>>

\* risk_config.max_daily_loss of the modelled deployment (default 500)
max_daily_loss == One

\* the harness writes a loss larger than max_daily_loss to daily_stats['pnl'];
\* no method of the TradingCore assigns it
SetDailyLoss ==
    /\ DecEq(core.pnl, Zero)
    /\ core' = [core EXCEPT !.pnl = DecSub(Zero, Two)]
    /\ last' = [op |-> "set_pnl", pair |-> "", value |-> DecSub(Zero, Two),
                outcome |-> "returned"]
    /\ UNCHANGED <<positions, risk_manager, pending, ws, fills, buys, client, loop, book>>

NextCore ==
    \/ ExecuteTrade \/ SubstituteFeed \/ StreamTicker \/ CoreGetCurrentPrice
    \/ SetDailyLoss

SpecCore == Init /\ [][NextCore]_vars

\* ---- SpecStats: trades of one pair at several prices, for the daily
\* statistics
StatsTrade ==
    ExecuteTradeCall(SideInputs, {Zero, One, Two}, {One, Two}, {"BTC-USD"}, BOOLEAN,
                     {AllOk, FailsFirst(retry_attempts, "ExchangeError")}, MaxCallFills)

NextStats == StatsTrade \/ SubstituteFeed \/ SetDailyLoss

SpecStats == Init /\ [][NextStats]_vars

\* ------------------------------------------------- TradingCore: strategies
\* config.trading_pairs, in the order of the configuration
trading_pairs == <<"BTC-USD", "ETH-USD">>

\* the prices a substituted feed returns to the strategies: a moving price
\* for the first pair, a constant one for the others
FeedPrices(trading_pair) ==
    IF trading_pair = trading_pairs[1] THEN {One, Two} ELSE {One}

\* the strategies read at most this many of the latest prices of a pair
HistoryKept == IF long_window > rsi_window + 1 THEN long_window ELSE rsi_window + 1

RECURSIVE SumPrices(_)
SumPrices(prices) ==
    IF prices = <<>> THEN Zero ELSE DecAdd(Head(prices), SumPrices(Tail(prices)))

LastPrices(prices, n) == SubSeq(prices, Len(prices) - n + 1, Len(prices))

\* TradingCore.store_price_data(trading_pair, price): append to the list of
\* the pair.  Only the latest HistoryKept prices are kept here, the ones
\* calculate_moving_average and calculate_rsi read.
store_price_data(price_data, trading_pair, price) ==
    LET old   == IF trading_pair \in DOMAIN price_data THEN price_data[trading_pair]
                 ELSE <<>>
        added == Append(old, price)
        kept  == IF Len(added) > HistoryKept THEN LastPrices(added, HistoryKept)
                 ELSE added
    IN  [p \in DOMAIN price_data \cup {trading_pair} |->
            IF p = trading_pair THEN kept ELSE price_data[p]]

\* the pair has at least n prices stored
HasHistory(price_data, trading_pair, n) ==
    /\ trading_pair \in DOMAIN price_data
    /\ Len(price_data[trading_pair]) >= n

\* TradingCore.calculate_moving_average(trading_pair, window): 0 without
\* enough prices, otherwise the mean of the last window prices, kept here as
\* the quotient sum / n
calculate_moving_average(price_data, trading_pair, window) ==
    IF ~HasHistory(price_data, trading_pair, window)
    THEN [sum |-> Zero, n |-> 1]
    ELSE [sum |-> SumPrices(LastPrices(price_data[trading_pair], window)), n |-> window]

IntDec(n) == [c |-> n, e |-> 0]

\* a > b for two means; the float quotients of the prices of the model
\* compare as the exact quotients do
MeanGt(a, b) == DecGt(DecMul(a.sum, IntDec(b.n)), DecMul(b.sum, IntDec(a.n)))

\* the signal of the crossover: 1 buy, -1 sell, 0 none
CrossoverSignal_TieBuys(short_ma, long_ma) ==
    IF MeanGt(long_ma, short_ma) THEN -1 ELSE 1

CrossoverSignal(short_ma, long_ma) ==
    IF MeanGt(short_ma, long_ma) THEN 1
    ELSE IF MeanGt(long_ma, short_ma) THEN -1 ELSE 0

\* the sum of the rises (gains) or of the falls (losses) of a price list
RECURSIVE SumChanges(_, _)
SumChanges(prices, rises) ==
    IF Len(prices) < 2 THEN Zero
    ELSE LET delta == DecSub(prices[2], prices[1])
             part  == IF rises /\ DecGt(delta, Zero) THEN delta
                      ELSE IF ~rises /\ DecLt(delta, Zero) THEN DecSub(Zero, delta)
                      ELSE Zero
         IN  DecAdd(part, SumChanges(Tail(prices), rises))

\* TradingCore.calculate_rsi(trading_pair, window) followed by the comparison
\* with the thresholds of run_rsi_strategy.  Without window + 1 prices the
\* RSI is 50; otherwise it is 100 - 100 / (1 + gain / loss) over the last
\* window changes: NaN when there is no change (no comparison holds), 100
\* when there is no loss, else 100 * gain / (gain + loss).
RsiSignal(price_data, trading_pair, window) ==
    IF ~HasHistory(price_data, trading_pair, window + 1) THEN "none"
    ELSE LET prices == LastPrices(price_data[trading_pair], window + 1)
             gain   == SumChanges(prices, TRUE)
             loss   == SumChanges(prices, FALSE)
             total  == DecAdd(gain, loss)
         IN  IF DecEq(total, Zero) THEN "none"
             ELSE IF DecLt(DecMul(IntDec(100), gain), DecMul(IntDec(rsi_oversold), total))
             THEN "buy"
             ELSE IF DecGt(DecMul(IntDec(100), gain), DecMul(IntDec(rsi_overbought), total))
             THEN "sell"
             ELSE "none"

\* TradingCore.get_current_price as the strategies call it, with the price a
\* substituted feed returns
feed_price(c, trading_pair, stub_price) ==
    IF c.feed = "stub" THEN [raises |-> "none", price |-> stub_price]
    ELSE core_get_current_price(c, trading_pair)

\* the result of a strategy run that requests no trade
NoTrade(raises, sig, c, pos, price_data) ==
    [raises |-> raises, signal |-> sig, trades |-> 0, orders |-> 0, outcome |-> "none",
     core |-> c, positions |-> pos, price_data |-> price_data,
     side |-> "", size |-> Zero, price |-> Zero]

\* a strategy awaits execute_trade(trading_pair, side, size, current_price);
\* every exception is raised again as TradingException
StrategyTrade(c, lp, pos, rm, trading_pair, sig, side, price, price_data, risk_ok, gw) ==
    LET size  == FloatOfDecimal(lp.max_position_size)
        trade == execute_trade(c, pos, rm, trading_pair, side, size, price, risk_ok, gw)
    IN  [raises |-> IF trade.outcome \in {"filled", "skipped"} THEN "none"
                    ELSE "TradingException",
         signal |-> sig, trades |-> 1, orders |-> trade.orders,
         outcome |-> trade.outcome, core |-> trade.core, positions |-> trade.positions,
         price_data |-> price_data, side |-> side, size |-> size, price |-> price]

\* TradingCore.run_moving_average_crossover_strategy(trading_pair)
run_moving_average_crossover_strategy(c, lp, pos, rm, trading_pair, stub_price, risk_ok, gw) ==
    LET short_ma == calculate_moving_average(lp.price_data, trading_pair, short_window)
        long_ma  == calculate_moving_average(lp.price_data, trading_pair, long_window)
        current  == feed_price(c, trading_pair, stub_price)
        stored   == store_price_data(lp.price_data, trading_pair, current.price)
        sig      == CrossoverSignal(short_ma, long_ma)
    IN  IF current.raises # "none"
        THEN NoTrade("TradingException", 0, c, pos, lp.price_data)
        ELSE IF sig = 0 THEN NoTrade("none", 0, c, pos, stored)
        ELSE StrategyTrade(c, lp, pos, rm, trading_pair, sig,
                           IF sig = 1 THEN "buy" ELSE "sell",
                           current.price, stored, risk_ok, gw)

\* TradingCore.run_rsi_strategy(trading_pair)
run_rsi_strategy(c, lp, pos, rm, trading_pair, stub_price, risk_ok, gw) ==
    LET side    == RsiSignal(lp.price_data, trading_pair, rsi_window)
        current == feed_price(c, trading_pair, stub_price)
    IN  IF current.raises # "none"
        THEN NoTrade("TradingException", 0, c, pos, lp.price_data)
        ELSE IF side = "none" THEN NoTrade("none", 0, c, pos, lp.price_data)
        ELSE StrategyTrade(c, lp, pos, rm, trading_pair,
                           IF side = "buy" THEN 1 ELSE -1, side,
                           current.price, lp.price_data, risk_ok, gw)

\* --------------------------------------------- TradingCore: loop and tasks
\* what exchange_interface.get_accounts() gives to TradingCore.get_position:
\* it raises (CoinbaseExchange has no such method), or the balance per pair
NoAccounts == [readable |-> FALSE, balance |-> [p \in Pairs |-> Zero]]
Accounts ==
    {NoAccounts} \cup {[readable |-> TRUE, balance |-> [p \in Pairs |-> b]] : b \in {Zero, One}}

\* TradingCore.get_position(symbol)['size']: the balance of the exchange
\* account; 0 when the accounts cannot be read or get_current_price, read
\* for the value of the position, raises
core_position_size(c, accounts, symbol) ==
    IF ~accounts.readable THEN Zero
    ELSE IF core_get_current_price(c, symbol).raises # "none" THEN Zero
    ELSE accounts.balance[symbol]

\* the pairs whose position shutdown tries to close; TradingCore has no
\* method adjust_position, so each attempt raises AttributeError, which the
\* handler of the pair logs
CloseAttempts(c, lp, accounts) ==
    IF DecEq(lp.max_position_size, Zero)
    THEN {p \in Pairs : ~DecEq(core_position_size(c, accounts, p), Zero)}
    ELSE {}

\* TradingCore.shutdown() without is_running = False
shutdown_KeepsRunning(c, lp, pos, accounts) ==
    [core |-> c,
     loop |-> [lp EXCEPT !.shut_down = TRUE,
                         !.streaming_task = IF @ = "connecting" THEN "cancelled" ELSE @],
     positions |-> pos, attempts |-> CloseAttempts(c, lp, accounts), closed |-> {},
     raises |-> "none"]

\* TradingCore.shutdown()
shutdown(c, lp, pos, accounts) ==
    [core |-> [c EXCEPT !.is_running = FALSE],
     loop |-> [lp EXCEPT !.shut_down = TRUE,
                         !.streaming_task = IF @ = "connecting" THEN "cancelled" ELSE @],
     positions |-> pos, attempts |-> CloseAttempts(c, lp, accounts), closed |-> {},
     raises |-> "none"]

\* the position of the loop after a strategy run: an exception leaves the
\* for loop for the handler of the iteration
AfterStrategy_StopsOnError(lp, raises) ==
    IF raises # "none" THEN "done"
    ELSE IF lp.pc = "ma" THEN "rsi"
    ELSE IF lp.pair < Len(trading_pairs) THEN "ma" ELSE "sleep"

AfterStrategy(lp, raises) ==
    IF raises # "none" THEN "backoff"
    ELSE IF lp.pc = "ma" THEN "rsi"
    ELSE IF lp.pair < Len(trading_pairs) THEN "ma" ELSE "sleep"

StrategyResult(name, c, lp, pos, rm, trading_pair, stub_price, risk_ok, gw) ==
    IF name = "ma"
    THEN run_moving_average_crossover_strategy(c, lp, pos, rm, trading_pair, stub_price,
                                               risk_ok, gw)
    ELSE run_rsi_strategy(c, lp, pos, rm, trading_pair, stub_price, risk_ok, gw)

\* the record of a step of the TradingCore at run time
LoopCall(op, pair, strategy, r) ==
    [op |-> op, pair |-> pair, strategy |-> strategy, raises |-> r.raises,
     signal |-> r.signal, trades |-> r.trades, orders |-> r.orders,
     outcome |-> r.outcome, side |-> r.side, size |-> r.size, price |-> r.price]

LoopEvent(op, outcome) ==
    LoopCall(op, "", "", [NoTrade("none", 0, core, positions, loop.price_data)
                            EXCEPT !.outcome = outcome])

\* initialize(): the configuration is loaded, is_running is set, the
\* streaming task and the trading loop are created
Initialize ==
    /\ loop.pc = "none" /\ ~loop.shut_down
    /\ core' = [core EXCEPT !.is_running = TRUE]
    /\ loop' = [loop EXCEPT !.pc = "check", !.streaming_task = "connecting"]
    /\ last' = LoopEvent("initialize", "returned")
    /\ UNCHANGED <<positions, risk_manager, pending, ws, fills, buys, client, book>>

\* _trading_loop: the test of `while self.is_running`
LoopCheck ==
    /\ loop.pc = "check"
    /\ loop' = [loop EXCEPT !.pc = IF core.is_running THEN "ma" ELSE "done",
                            !.pair = 1, !.evaluated = {}]
    /\ last' = LoopEvent("loop_check", IF core.is_running THEN "iteration" ELSE "done")
    /\ UNCHANGED <<positions, risk_manager, pending, ws, fills, buys, core, client, book>>

\* _trading_loop: one strategy is awaited for the current pair
RunStrategy ==
    /\ loop.pc \in {"ma", "rsi"}
    /\ \E trading_pair \in {trading_pairs[loop.pair]} :
       \E stub_price \in Consulted(core.feed = "stub", FeedPrices(trading_pair), One) :
       \E probe \in {StrategyResult(loop.pc, core, loop, positions, risk_manager,
                                    trading_pair, stub_price, TRUE, AllOk)} :
       \E reaches \in {/\ probe.trades = 1
                       /\ TradeReachesRiskCheck(core, positions, probe.side, probe.size,
                                                probe.price, trading_pair)} :
       \E risk_ok \in Consulted(reaches /\ risk_manager = "configured", BOOLEAN, TRUE) :
       \E gw \in Consulted(reaches /\ ~RiskRejects(risk_manager, risk_ok),
                           {AllOk, FailsFirst(retry_attempts, "ExchangeError")}, AllOk) :
       \E r \in {StrategyResult(loop.pc, core, loop, positions, risk_manager,
                                trading_pair, stub_price, risk_ok, gw)} :
           /\ r.outcome = "filled" => fills < MaxCallFills
           /\ positions' = r.positions
           /\ core' = r.core
           /\ fills' = IF r.outcome = "filled" THEN fills + 1 ELSE fills
           /\ buys' = IF r.outcome = "filled"
                      THEN [buys EXCEPT ![trading_pair] =
                              RecordFill(@, get_position(positions, trading_pair),
                                         r.positions[trading_pair], r.side, r.size, r.price)]
                      ELSE buys
           /\ loop' = [loop EXCEPT
                         !.price_data = r.price_data,
                         !.evaluated = @ \cup {<<trading_pair, loop.pc>>},
                         !.pc = AfterStrategy(loop, r.raises),
                         !.pair = IF r.raises = "none" /\ loop.pc = "rsi"
                                     /\ loop.pair < Len(trading_pairs)
                                  THEN @ + 1 ELSE @]
           /\ last' = LoopCall("strategy", trading_pair, loop.pc, r)
           /\ UNCHANGED <<risk_manager, pending, ws, client, book>>

\* _trading_loop: asyncio.sleep(1) after an iteration, asyncio.sleep(10)
\* after an exception, then the test of the while again
Wake ==
    /\ loop.pc \in {"sleep", "backoff"}
    /\ loop' = [loop EXCEPT !.pc = "check"]
    /\ last' = LoopEvent("wake", loop.pc)
    /\ UNCHANGED <<positions, risk_manager, pending, ws, fills, buys, core, client, book>>

\* a caller awaits shutdown()
Shutdown ==
    \E accounts \in Consulted(DecEq(loop.max_position_size, Zero), Accounts, NoAccounts) :
    \E r \in {shutdown(core, loop, positions, accounts)} :
        /\ core' = r.core
        /\ loop' = r.loop
        /\ positions' = r.positions
        /\ last' = [LoopEvent("shutdown", "returned") EXCEPT
                      !.raises = r.raises, !.trades = Cardinality(r.attempts),
                      !.orders = Cardinality(r.closed)]
        /\ UNCHANGED <<risk_manager, pending, ws, fills, buys, client, book>>

\* the streaming task: _start_coinbase_streaming awaits connect() and, when
\* it succeeded, creates the task of receive_data() and returns
StartStreaming ==
    \E connected \in BOOLEAN :
        /\ loop.streaming_task = "connecting"
        /\ loop' = [loop EXCEPT !.streaming_task = IF connected THEN "done" ELSE "failed",
                                !.receive_task = IF connected THEN "running" ELSE @]
        /\ last' = LoopEvent("start_streaming",
                             IF connected THEN "returned" ELSE "TradingException")
        /\ UNCHANGED <<positions, risk_manager, pending, ws, fills, buys, core, client, book>>

\* the receive task processes the next message of the stream; a message of
\* type error ends receive_data with StreamingError
StreamMessage ==
    \E type \in {"ticker", "heartbeat", "error"} :
        /\ loop.receive_task = "running"
        /\ loop' = [loop EXCEPT !.receive_task = IF type = "error" THEN "ended" ELSE @]
        /\ last' = LoopEvent("stream_message", type)
        /\ UNCHANGED <<positions, risk_manager, pending, ws, fills, buys, core, client, book>>

\* the harness sets risk_config.max_position_size to Decimal('0'), the value
\* shutdown() reads as the order to close every position
ConfigureFlatten ==
    /\ ~DecEq(loop.max_position_size, Zero)
    /\ loop' = [loop EXCEPT !.max_position_size = Zero]
    /\ UNCHANGED <<positions, risk_manager, pending, ws, fills, buys, last, core, client, book>>

\* ---- SpecLoop: a TradingCore that is initialized, runs its strategies and
\* is shut down
LoopStep == LoopCheck \/ RunStrategy \/ Wake

NextLoop ==
    \/ Initialize \/ LoopStep \/ Shutdown \/ SubstituteFeed \/ ConfigureFlatten

SpecLoop == Init /\ [][NextLoop]_vars

\* the states of the loop an awaited strategy can leave behind: it returned or
\* raised, with or without a price stored
StrategyExits ==
    {[loop EXCEPT
        !.price_data = pd,
        !.evaluated = @ \cup {<<trading_pairs[loop.pair], loop.pc>>},
        !.pc = AfterStrategy(loop, raises),
        !.pair = IF raises = "none" /\ loop.pc = "rsi" /\ loop.pair < Len(trading_pairs)
                 THEN @ + 1 ELSE @] :
       raises \in {"none", "TradingException"},
       pd \in {loop.price_data} \cup
              {store_price_data(loop.price_data, trading_pairs[loop.pair], p) :
                 p \in FeedPrices(trading_pairs[loop.pair])}}

\* the strategy the loop awaits completes; the steps of RunStrategy are
\* exactly the steps of this action (StrategyStepsReturn)
StrategyReturns == loop.pc \in {"ma", "rsi"} /\ loop' \in StrategyExits

StrategyStepsReturn ==
    [][(loop.pc \in {"ma", "rsi"} /\ loop'.pc # loop.pc) <=> StrategyReturns]_vars

\* the event loop runs the trading-loop task: the test of the while is made,
\* an awaited strategy completes (the retries of an order are bounded), and
\* a sleep ends
SpecLoopFair ==
    SpecLoop /\ WF_vars(LoopCheck) /\ WF_vars(Wake) /\ WF_loop(StrategyReturns)

\* ---- SpecTasks: the tasks of a TradingCore with its own CoinbaseStreaming
NextTasks ==
    \/ Initialize \/ LoopStep \/ Shutdown \/ StartStreaming \/ StreamMessage

SpecTasks == Init /\ [][NextTasks]_vars

\* --------------------------------------------------------- CoinbaseClient
\* the values of a JSON field of a stream message or of a REST response:
\* absent, null, or a string
FieldValues == {"missing", "null", "", "abc", "0", "-1", "1", "2"}

\* float(v): the exception it raises, and its value when it raises none
FloatRaises(v) ==
    IF v = "null" THEN "TypeError"
    ELSE IF v \in {"", "abc"} THEN "ValueError" ELSE "none"
FloatValue(v) ==
    IF v = "1" THEN One ELSE IF v = "2" THEN Two
    ELSE IF v = "-1" THEN MinusOne ELSE Zero

\* Python's truth value of a field read with dict.get
Falsy(v) == v \in {"missing", "null", ""}

\* what _fetch_price_from_api does: it raises (transport failure), returns
\* {} (status other than 200) or returns the JSON body
RestResponses ==
    {[kind |-> "raises", price |-> "missing"], [kind |-> "empty", price |-> "missing"]}
        \cup {[kind |-> "body", price |-> v] : v \in FieldValues}

\* the result of a get_current_price that returns value
PriceReturned(c, value, fetches) ==
    [outcome |-> "returned", value |-> value, fetches |-> fetches, client |-> c]

\* CoinbaseClient.get_current_price(symbol), called from a coroutine of a
\* running event loop (in_loop) or from synchronous code, with rest the
\* behaviour of the REST API.  Inside a running loop run_until_complete
\* raises RuntimeError before the fetch starts.
get_current_price(c, symbol, in_loop, rest) ==
    IF symbol \in DOMAIN c.prices THEN PriceReturned(c, c.prices[symbol], 0)
    ELSE IF in_loop THEN PriceReturned(c, Zero, 0)
    ELSE IF rest.kind = "raises" THEN PriceReturned(c, Zero, 1)
    ELSE IF rest.kind = "empty" \/ rest.price = "missing" THEN PriceReturned(c, Zero, 1)
    ELSE IF FloatRaises(rest.price) = "ValueError"
    THEN [outcome |-> "ApiError", value |-> Zero, fetches |-> 1, client |-> c]
    ELSE IF FloatRaises(rest.price) # "none" THEN PriceReturned(c, Zero, 1)
    ELSE IF FloatValue(rest.price).c <= 0 THEN PriceReturned(c, Zero, 1)
    ELSE PriceReturned([c EXCEPT !.prices =
                           [p \in DOMAIN @ \cup {symbol} |->
                               IF p = symbol THEN FloatValue(rest.price) ELSE @[p]]],
                       FloatValue(rest.price), 1)

\* CoinbaseClient.simulate_price_update(symbol, price)
simulate_price_update(c, symbol, price) ==
    [c EXCEPT !.prices = [p \in DOMAIN @ \cup {symbol} |->
                             IF p = symbol THEN price ELSE @[p]]]

\* the messages of the stream: text that is not JSON, or an object with
\* these fields
Messages ==
    {[type |-> t, product_id |-> "missing", price |-> "missing", volume_24h |-> "missing"] :
        t \in {"not json", "missing", "heartbeat", "error", "snapshot"}}
    \cup {[type |-> "ticker", product_id |-> p, price |-> v, volume_24h |-> w] :
            p \in {"missing", "BTC-USD"},
            v \in {"missing", "abc", "1"}, w \in {"missing", "abc", "2"}}

\* CoinbaseClient._handle_ticker(message)
handle_ticker(c, message) ==
    IF Falsy(message.product_id) \/ Falsy(message.price) THEN c
    ELSE IF FloatRaises(message.price) # "none" THEN c
    ELSE LET priced == simulate_price_update(c, message.product_id,
                                             FloatValue(message.price))
         IN  IF message.volume_24h # "missing" /\ FloatRaises(message.volume_24h) # "none"
             THEN priced
             ELSE [priced EXCEPT !.ticker_data =
                     [p \in DOMAIN @ \cup {message.product_id} |->
                        IF p = message.product_id
                        THEN [price |-> FloatValue(message.price),
                              volume_24h |-> IF message.volume_24h = "missing" THEN Zero
                                             ELSE FloatValue(message.volume_24h)]
                        ELSE @[p]]]

\* CoinbaseClient.process_message(message): the client after it, and the
\* exception it raises
process_message(c, message) ==
    IF message.type = "missing" THEN [client |-> c, raises |-> "none"]
    ELSE IF message.type = "ticker"
    THEN [client |-> handle_ticker(c, message), raises |-> "none"]
    ELSE IF message.type = "heartbeat"
    THEN [client |-> [c EXCEPT !.heartbeats = @ + 1], raises |-> "none"]
    ELSE IF message.type = "error" THEN [client |-> c, raises |-> "ApiError"]
    ELSE [client |-> c, raises |-> "none"]

\* one iteration of the loop of receive_data: json.loads and
\* process_message, inside `except json.JSONDecodeError` and
\* `except Exception`, which log and go on with the loop
receive_message(c, message) ==
    IF message.type = "not json" THEN [client |-> c, loop |-> "running"]
    ELSE [client |-> process_message(c, message).client, loop |-> "running"]

\* the answers of the server to the authentication and to the subscription
\* request: an object that is not an error, an error object, text that is
\* not JSON, or none because the connection dropped
Responses == {"ok", "error", "not json", "dropped"}

\* CoinbaseClient.authenticate / subscribe: send the request, await the answer
Request(c, name, response) ==
    [client |-> [c EXCEPT !.sent = Append(@, name)],
     raises |-> IF response = "ok" THEN "none" ELSE "ApiError"]

\* CoinbaseClient.connect(): open the transport, authenticate, subscribe
connect(c, transport_ok, auth_response, sub_response) ==
    IF ~transport_ok THEN [client |-> c, raises |-> "ApiError"]
    ELSE LET opened == [c EXCEPT !.websocket = "open", !.sent = <<>>]
             auth   == Request(opened, "authenticate", auth_response)
             sub    == Request(auth.client, "subscribe", sub_response)
         IN  IF auth.raises # "none" THEN [client |-> auth.client, raises |-> "ApiError"]
             ELSE IF sub.raises # "none" THEN [client |-> sub.client, raises |-> "ApiError"]
             ELSE [client |-> [sub.client EXCEPT !.connected = TRUE], raises |-> "none"]

\* CoinbaseClient.close(), with a transport whose close() succeeds or raises
\* (closing a transport that is closed already succeeds)
close(c, close_ok) ==
    IF c.websocket = "none" THEN [client |-> c, raises |-> "none"]
    ELSE IF ~close_ok THEN [client |-> c, raises |-> "OSError"]
    ELSE [client |-> [c EXCEPT !.websocket = "closed", !.connected = FALSE],
          raises |-> "none"]

\* the record of a call on the client
ClientCall(op, pair, arg, outcome, value, fetches) ==
    [op |-> op, pair |-> pair, arg |-> arg, outcome |-> outcome, value |-> value,
     fetches |-> fetches]

ExecutorUnchanged == UNCHANGED <<positions, risk_manager, pending, ws, fills, buys, core, loop, book>>

GetCurrentPrice ==
    \E symbol \in Pairs, in_loop \in BOOLEAN :
    \E rest \in Consulted(symbol \notin DOMAIN client.prices /\ ~in_loop,
                          RestResponses, [kind |-> "empty", price |-> "missing"]) :
    \E r \in {get_current_price(client, symbol, in_loop, rest)} :
        /\ client' = r.client
        /\ last' = ClientCall("get_current_price", symbol,
                              [in_loop |-> in_loop, rest |-> rest],
                              r.outcome, r.value, r.fetches)
        /\ ExecutorUnchanged

SimulatePriceUpdate ==
    \E symbol \in Pairs, price \in {One, Two} :
        /\ client' = simulate_price_update(client, symbol, price)
        /\ last' = ClientCall("simulate_price_update", symbol, price, "returned", Zero, 0)
        /\ ExecutorUnchanged

Connect ==
    \E transport_ok \in BOOLEAN :
    \E auth_response \in Consulted(transport_ok, Responses, "ok") :
    \E sub_response \in Consulted(transport_ok /\ auth_response = "ok", Responses, "ok") :
    \E r \in {connect(client, transport_ok, auth_response, sub_response)} :
        /\ client.receiving = "idle"
        /\ client' = r.client
        /\ last' = ClientCall("connect", "",
                              [transport_ok |-> transport_ok, auth |-> auth_response,
                               sub |-> sub_response],
                              IF r.raises = "none" THEN "returned" ELSE r.raises, Zero, 0)
        /\ ExecutorUnchanged

\* receive_data() is awaited: without a websocket it raises, otherwise the
\* loop starts
StartReceiving ==
    /\ client.receiving = "idle"
    /\ client' = IF client.websocket = "none" THEN client
                 ELSE [client EXCEPT !.receiving = "running"]
    /\ last' = ClientCall("receive_data", "", "",
                          IF client.websocket = "none" THEN "ApiError" ELSE "started",
                          Zero, 0)
    /\ ExecutorUnchanged

\* the open websocket yields the next message to the loop
Deliver ==
    \E message \in Messages :
    \E r \in {receive_message(client, message)} :
        /\ client.receiving = "running" /\ client.websocket = "open"
        /\ message.type = "heartbeat" => client.heartbeats < MaxHeartbeats
        /\ client' = [r.client EXCEPT !.receiving = r.loop]
        /\ last' = ClientCall("message", message.product_id, message,
                              r.loop, Zero, 0)
        /\ ExecutorUnchanged

\* the stream ends: the iteration stops normally, or raises ConnectionClosed,
\* which receive_data turns into ApiError after clearing connected
StreamEnds ==
    \E closed_error \in BOOLEAN :
        /\ client.receiving = "running"
        /\ client' = [client EXCEPT !.receiving = "idle", !.websocket = "closed",
                                    !.connected = IF closed_error THEN FALSE ELSE @]
        /\ last' = ClientCall("receive_data", "", "",
                              IF closed_error THEN "ApiError" ELSE "returned", Zero, 0)
        /\ ExecutorUnchanged

Close ==
    \E close_ok \in Consulted(client.websocket = "open", BOOLEAN, TRUE) :
    \E r \in {close(client, close_ok)} :
        /\ client' = r.client
        /\ last' = ClientCall("close", "", close_ok,
                              IF r.raises = "none" THEN "returned" ELSE r.raises, Zero, 0)
        /\ ExecutorUnchanged

\* ---- SpecClient: one CoinbaseClient and its callers
NextClient ==
    \/ Connect \/ StartReceiving \/ Deliver \/ StreamEnds \/ Close
    \/ GetCurrentPrice \/ SimulatePriceUpdate

SpecClient == Init /\ [][NextClient]_vars

\* ================================================================== claims

\* the exact weighted average sum_value / sum_size (hundredths over tenths),
\* as a Decimal of the context
AverageOf(b) == DecDiv(Norm(b.sum_value, -2), Norm(b.sum_size, -1))

\* entry * sum_size and sum_value as integers of the same unit
EntryValue(entry, b) ==
    entry.c * Pow10(entry.e - (IF entry.e < 0 THEN entry.e ELSE 0)) * b.sum_size * 10
BoughtValue(entry, b) == b.sum_value * Pow10(IF entry.e < 0 THEN 0 - entry.e ELSE 0)
Distance(x, y) == IF x < y THEN y - x ELSE x - y

\* a pair that was bought since it was last flat and not sold in between
OnlyBought(p) == buys[p].n >= 1 /\ ~buys[p].sold

\* C1 as stated: after each buy of a run of buys from a flat position, the
\* tracked size is the sum of the bought sizes and entry_price is
\* sum(size_i * price_i) / sum(size_i), the quotient taken in the same
\* Decimal context.
C1_WeightedAverage ==
    \A p \in Pairs :
        OnlyBought(p) =>
            /\ SizeTenths(positions[p].size) = buys[p].sum_size
            /\ DecEq(positions[p].entry_price, AverageOf(buys[p]))

\* C1 amended: entry_price is that average up to the rounding of the Decimal
\* operations of each update.  When none of them rounded, size is the sum
\* of the bought sizes and entry_price * sum(size_i) = sum(size_i * price_i)
\* exactly; in every case, after n buys, entry_price is within the relative
\* error 3 * (n - 1) * 10^(1 - prec) of the exact average (so it is exact
\* after the first buy).
C1_WeightedAverageRounded ==
    \A p \in Pairs :
        OnlyBought(p) =>
            /\ buys[p].exact =>
                  /\ SizeTenths(positions[p].size) = buys[p].sum_size
                  /\ EntryValue(positions[p].entry_price, buys[p])
                        = BoughtValue(positions[p].entry_price, buys[p])
            /\ Distance(EntryValue(positions[p].entry_price, buys[p]),
                        BoughtValue(positions[p].entry_price, buys[p]))
                    * Pow10(DecimalPrec - 1)
                  <= 3 * (buys[p].n - 1) * BoughtValue(positions[p].entry_price, buys[p])

\* three buys at different prices, the last of which rounded
C1_Witness ==
    \E p \in Pairs :
        /\ OnlyBought(p) /\ buys[p].n >= 3 /\ ~buys[p].exact
        /\ last.side = "buy" /\ last.outcome = "filled" /\ last.pair = p
        /\ ~DecEq(positions[p].entry_price, AverageOf(buys[p]))

\* C2: a pair whose tracked size is 0 has entry_price 0, in every state
\* reached through execute_order and adjust_position.
C2_FlatReset ==
    \A p \in DOMAIN positions :
        DecEq(positions[p].size, Zero) => DecEq(positions[p].entry_price, Zero)

\* a sell closed a position that had been bought
C2_Witness ==
    /\ last.side = "sell" /\ last.outcome = "filled"
    /\ last.pair \in DOMAIN positions
    /\ DecEq(positions[last.pair].size, Zero)

\* C9: a successful sell of a size s strictly smaller than the tracked size
\* reduces the size by exactly s and leaves entry_price unchanged.
C9_PartialSell ==
    [][ ( /\ last'.side = "sell" /\ last'.outcome = "filled"
          /\ DecLt(DecimalOfFloat(last'.size), get_position(positions, last'.pair).size) )
        => /\ SizeTenths(positions'[last'.pair].size)
                = SizeTenths(positions[last'.pair].size) - SizeTenths(last'.size)
           /\ positions'[last'.pair].entry_price = positions[last'.pair].entry_price
      ]_vars

\* a partial sell of a position whose entry price is an average
C9_Witness ==
    /\ last.side = "sell" /\ last.outcome = "filled"
    /\ last.pair \in DOMAIN positions
    /\ ~DecEq(positions[last.pair].size, Zero)
    /\ positions[last.pair].entry_price \notin {One, Two}

\* ------------------------------------------------ order-book OrderExecutor
\* risk_config of the modelled deployments (defaults 5 and 5.0): the
\* maximum of open orders of SpecBook and the one of SpecPaper
max_open_orders == 1
paper_max_open_orders == 2
book_max_position_size == One

Three == [c |-> 3, e |-> 0]

\* None, for a price that is not set
NoPrice == [c |-> -1, e |-> 0]

OrderStatuses == {"open", "filled", "canceled", "rejected", "pending"}

\* Order(symbol, side, order_type, quantity, price)
NewOrder(symbol, side, order_type, quantity, price) ==
    [symbol |-> symbol, side |-> side, order_type |-> order_type,
     quantity |-> quantity, price |-> price, status |-> "pending",
     filled_quantity |-> Zero, avg_fill_price |-> NoPrice, exchange_order_id |-> "none"]

\* d[k] = v and del d[k] on a dict
Put(d, k, v) == [x \in DOMAIN d \cup {k} |-> IF x = k THEN v ELSE d[x]]
Del(d, k) == [x \in DOMAIN d \ {k} |-> d[x]]

\* the keys of a dict in the order of insertion: client_order_id is the time
\* of creation, so later orders have larger ids
RECURSIVE SortedIds(_)
SortedIds(ids) ==
    IF ids = {} THEN <<>>
    ELSE LET first == CHOOSE x \in ids : \A y \in ids : x <= y
         IN  <<first>> \o SortedIds(ids \ {first})

\* validate_order without the test of the number of open orders
validate_order_NoCountCheck(b, order) ==
    IF order.symbol \notin ConfigPairs THEN "pair"
    ELSE IF ~DecEq(order.quantity, Zero) /\ DecGt(order.quantity, book_max_position_size)
    THEN "size"
    ELSE "ok"

\* OrderExecutor.validate_order(order): "ok", or the check that fails
validate_order(b, order) ==
    IF order.symbol \notin ConfigPairs THEN "pair"
    ELSE IF ~DecEq(order.quantity, Zero) /\ DecGt(order.quantity, book_max_position_size)
    THEN "size"
    ELSE IF Cardinality(DOMAIN b.open_orders) >= b.max_open_orders THEN "count"
    ELSE "ok"

\* the result of a call of the executor
BookResult(b, order, raises, calls, reason) ==
    [book |-> b, order |-> order, raises |-> raises, calls |-> calls, reason |-> reason]

\* _execute_paper_order that keeps a filled market order among the open orders
execute_paper_order_FilledStaysOpen(b, id, order, price_answer) ==
    LET sent == [order EXCEPT !.exchange_order_id = "paper"]
        filled == [sent EXCEPT !.status = "filled", !.filled_quantity = order.quantity,
                               !.avg_fill_price = price_answer.price]
        opened == [sent EXCEPT !.status = "open"]
    IN  IF order.order_type = "market"
        THEN IF price_answer.raises
             THEN BookResult(b, [sent EXCEPT !.status = "rejected"], "none", 1, "ok")
             ELSE BookResult([b EXCEPT !.open_orders = Put(@, id, filled)],
                             filled, "none", 1, "ok")
        ELSE BookResult([b EXCEPT !.open_orders = Put(@, id, opened)],
                        opened, "none", 0, "ok")

\* OrderExecutor._execute_paper_order(order); price_answer is what
\* client.get_current_price gives
execute_paper_order(b, id, order, price_answer) ==
    LET sent == [order EXCEPT !.exchange_order_id = "paper"]
    IN  IF order.order_type = "market"
        THEN IF price_answer.raises
             THEN BookResult(b, [sent EXCEPT !.status = "rejected"], "none", 1, "ok")
             ELSE LET filled == [sent EXCEPT !.status = "filled",
                                             !.filled_quantity = order.quantity,
                                             !.avg_fill_price = price_answer.price]
                  IN  BookResult([b EXCEPT !.order_history = Put(@, id, filled)],
                                 filled, "none", 1, "ok")
        ELSE LET opened == [sent EXCEPT !.status = "open"]
             IN  BookResult([b EXCEPT !.open_orders = Put(@, id, opened)],
                            opened, "none", 0, "ok")

\* OrderExecutor._execute_live_order(order); response is what
\* client.place_order gives
execute_live_order(b, id, order, response) ==
    IF response.raises \/ response.status \notin OrderStatuses
    THEN BookResult(b, [order EXCEPT !.status = "rejected"], "OrderExecutionError", 1, "ok")
    ELSE LET placed == [order EXCEPT
                          !.exchange_order_id = IF response.has_id THEN "set" ELSE "none",
                          !.status = response.status]
         IN  IF response.status = "filled"
             THEN LET filled == [placed EXCEPT !.filled_quantity = order.quantity,
                                               !.avg_fill_price = response.price]
                  IN  BookResult([b EXCEPT !.order_history = Put(@, id, filled)],
                                 filled, "none", 1, "ok")
             ELSE BookResult([b EXCEPT !.open_orders = Put(@, id, placed)],
                             placed, "none", 1, "ok")

\* execute_order that logs a failed validation and executes the order anyway
book_execute_order_IgnoresValidation(b, id, symbol, side, order_type, quantity, price, price_answer, response) ==
    LET order == NewOrder(symbol, side, order_type, quantity,
                          IF order_type = "limit" THEN price ELSE NoPrice)
    IN  IF side \notin {"buy", "sell"} \/ order_type \notin {"market", "limit"}
        THEN BookResult(b, [order EXCEPT !.status = "rejected"], "ValidationError", 0,
                        "value")
        ELSE IF b.mode = "paper" THEN execute_paper_order(b, id, order, price_answer)
        ELSE execute_live_order(b, id, order, response)

\* OrderExecutor.execute_order(symbol, side, order_type, quantity, price) of
\* the order-book executor; id is the client_order_id the new Order gets
book_execute_order(b, id, symbol, side, order_type, quantity, price, price_answer, response) ==
    LET order == NewOrder(symbol, side, order_type, quantity,
                          IF order_type = "limit" THEN price ELSE NoPrice)
        valid == validate_order(b, order)
    IN  IF side \notin {"buy", "sell"} \/ order_type \notin {"market", "limit"}
        THEN BookResult(b, [order EXCEPT !.status = "rejected"], "ValidationError", 0,
                        "value")
        ELSE IF valid # "ok"
        THEN BookResult(b, [order EXCEPT !.status = "rejected"], "ValidationError", 0,
                        valid)
        ELSE IF b.mode = "paper" THEN execute_paper_order(b, id, order, price_answer)
        ELSE execute_live_order(b, id, order, response)

\* a fill condition that needs the price to pass the limit, not to reach it
ShouldFill_Strict(order, current_price) ==
    /\ order.order_type = "limit"
    /\ \/ order.side = "buy" /\ DecLt(current_price, order.price)
       \/ order.side = "sell" /\ DecLt(order.price, current_price)

\* a limit order of the paper book fills at this price
ShouldFill(order, current_price) ==
    /\ order.order_type = "limit"
    /\ \/ order.side = "buy" /\ DecLe(current_price, order.price)
       \/ order.side = "sell" /\ DecLe(order.price, current_price)

\* OrderExecutor._update_paper_orders(): the open orders in turn; the price
\* of the symbol is read until a read succeeds (the first fails reads raise)
RECURSIVE update_paper_orders(_, _, _, _)
update_paper_orders(b, ids, fails, current_price) ==
    IF ids = <<>> THEN b
    ELSE IF fails > 0 THEN update_paper_orders(b, Tail(ids), fails - 1, current_price)
    ELSE LET id    == Head(ids)
             order == b.open_orders[id]
             filled == [order EXCEPT !.status = "filled",
                                     !.filled_quantity = order.quantity,
                                     !.avg_fill_price = order.price]
         IN  IF ShouldFill(order, current_price)
             THEN update_paper_orders([b EXCEPT !.open_orders = Del(@, id),
                                                !.order_history = Put(@, id, filled)],
                                      Tail(ids), 0, current_price)
             ELSE update_paper_orders(b, Tail(ids), 0, current_price)

\* OrderExecutor._update_live_orders(): answers[id] tells whether the
\* exchange lists the order among its open orders, whether get_order raises,
\* and the status the exchange reports
RECURSIVE update_live_orders(_, _, _)
update_live_orders(b, ids, answers) ==
    IF ids = <<>> THEN b
    ELSE LET id      == Head(ids)
             order   == b.open_orders[id]
             answer  == answers[id]
             updated == [order EXCEPT !.status = answer.status]
             final   == IF answer.listed THEN {"filled"} ELSE {"filled", "canceled"}
         IN  IF order.exchange_order_id = "none" \/ (~answer.listed /\ answer.raises)
             THEN update_live_orders(b, Tail(ids), answers)
             ELSE IF answer.status \in final
             THEN update_live_orders([b EXCEPT !.open_orders = Del(@, id),
                                               !.order_history = Put(@, id, updated)],
                                     Tail(ids), answers)
             ELSE update_live_orders([b EXCEPT !.open_orders = Put(@, id, updated)],
                                     Tail(ids), answers)

\* OrderExecutor.cancel_order(order_id)
cancel_order(b, id, cancel_raises) ==
    IF id \notin DOMAIN b.open_orders
    THEN BookResult(b, NewOrder("", "", "", Zero, NoPrice), "none", 0, "False")
    ELSE LET order    == b.open_orders[id]
             canceled == [order EXCEPT !.status = "canceled"]
             moved    == [b EXCEPT !.open_orders = Del(@, id),
                                   !.order_history = Put(@, id, canceled)]
         IN  IF b.mode = "paper" THEN BookResult(moved, canceled, "none", 0, "True")
             ELSE IF order.exchange_order_id = "none"
             THEN BookResult(b, order, "none", 0, "False")
             ELSE IF cancel_raises THEN BookResult(b, order, "none", 1, "False")
             ELSE BookResult(moved, canceled, "none", 1, "True")

\* the record of a call of the order-book executor
BookCall(op, id, r, price, fails) ==
    [op |-> op, id |-> id, outcome |-> r.raises, status |-> r.order.status,
     calls |-> r.calls, reason |-> r.reason, order |-> r.order, price |-> price,
     fails |-> fails]

\* no order
NoOrder == NewOrder("", "", "", Zero, NoPrice)

\* what client.get_current_price gives to the paper book
PriceAnswers ==
    {[raises |-> TRUE, price |-> Zero]} \cup
    {[raises |-> FALSE, price |-> p] : p \in {One, Three}}

NoPriceAnswer == [raises |-> TRUE, price |-> Zero]

\* what client.place_order gives to the live book
PlaceOrderResponses ==
    {[raises |-> TRUE, status |-> "", has_id |-> FALSE, price |-> Zero],
     [raises |-> FALSE, status |-> "done", has_id |-> TRUE, price |-> Zero],
     [raises |-> FALSE, status |-> "open", has_id |-> TRUE, price |-> Zero],
     [raises |-> FALSE, status |-> "canceled", has_id |-> TRUE, price |-> Zero],
     [raises |-> FALSE, status |-> "filled", has_id |-> TRUE, price |-> One]}

NoResponse == [raises |-> TRUE, status |-> "", has_id |-> FALSE, price |-> Zero]

\* what the exchange tells _update_live_orders about one order
ExchangeAnswers ==
    {[listed |-> TRUE, raises |-> FALSE, status |-> s] : s \in {"open", "filled", "canceled"}}
    \cup {[listed |-> FALSE, raises |-> TRUE, status |-> ""]}
    \cup {[listed |-> FALSE, raises |-> FALSE, status |-> s] : s \in {"filled", "canceled"}}

\* the client_order_id of a new order: the time in milliseconds, the same as
\* the one of the order before it or a later one
NextIds(b) == {i \in {b.created, b.created + 1} : i >= 1 /\ i <= MaxOrders}

\* OrderExecutor(client, config_manager), for paper or for live trading
ConstructBook(modes, maximum) ==
    \E mode \in modes :
        /\ book.mode = "none"
        /\ book' = [InitBook EXCEPT !.mode = mode, !.max_open_orders = maximum]
        /\ last' = [op |-> "construct", id |-> 0, outcome |-> "none", status |-> mode,
                    calls |-> 0, reason |-> "ok", order |-> NoOrder, price |-> NoPrice,
                    fails |-> 0]
        /\ UNCHANGED <<positions, risk_manager, pending, ws, fills, buys, core, client, loop>>

Construct == ConstructBook({"paper", "live"}, max_open_orders)

\* the orders submitted: the valid ones, and one for each way of being
\* invalid (pair not configured, quantity above the maximum, no such side);
\* the live book hands the side to the exchange and never reads it
OrderInputs(mode) ==
    {[symbol |-> "BTC-USD", side |-> sd, order_type |-> ot, quantity |-> One] :
        sd \in IF mode = "paper" THEN {"buy", "sell"} ELSE {"buy"},
        ot \in {"market", "limit"}}
    \cup {[symbol |-> "DOGE-USD", side |-> "buy", order_type |-> "limit", quantity |-> One],
          [symbol |-> "BTC-USD", side |-> "buy", order_type |-> "limit", quantity |-> Two],
          [symbol |-> "BTC-USD", side |-> "hold", order_type |-> "limit", quantity |-> One]}

\* a caller submits one of the orders of inputs
SubmitOrder(inputs) ==
    \E id \in NextIds(book), input \in inputs :
    \E symbol \in {input.symbol}, side \in {input.side},
       order_type \in {input.order_type}, quantity \in {input.quantity} :
    \E price_answer \in Consulted(book.mode = "paper" /\ order_type = "market",
                                  PriceAnswers, NoPriceAnswer) :
    \E response \in Consulted(book.mode = "live", PlaceOrderResponses, NoResponse) :
    \E r \in {book_execute_order(book, id, symbol, side, order_type, quantity, Two,
                                 price_answer, response)} :
        /\ book.mode # "none"
        /\ book' = [r.book EXCEPT !.created = IF r.book # book /\ id > @ THEN id ELSE @]
        /\ last' = BookCall("execute_order", id, r,
                             IF price_answer.raises THEN NoPrice ELSE price_answer.price,
                             IF book.mode = "paper" /\ order_type = "market"
                                /\ price_answer.raises THEN 1 ELSE 0)
        /\ UNCHANGED <<positions, risk_manager, pending, ws, fills, buys, core, client, loop>>

BookExecuteOrder == SubmitOrder(OrderInputs(book.mode))

\* a caller awaits update_open_orders()
UpdateOpenOrders ==
    \E fails \in 0..Cardinality(DOMAIN book.open_orders) :
    \E current_price \in {One, Two, Three} :
    \E listing_raises \in Consulted(book.mode = "live", BOOLEAN, FALSE) :
    \E answers \in [DOMAIN book.open_orders -> ExchangeAnswers] :
        /\ book.mode # "none"
        /\ book.mode = "paper" => answers \in [DOMAIN book.open_orders -> {[listed |-> FALSE, raises |-> TRUE, status |-> ""]}]
        /\ book.mode = "live" => fails = 0 /\ current_price = One
        /\ book' = IF book.mode = "paper"
                   THEN update_paper_orders(book, SortedIds(DOMAIN book.open_orders),
                                            fails, current_price)
                   ELSE IF listing_raises THEN book
                   ELSE update_live_orders(book, SortedIds(DOMAIN book.open_orders), answers)
        /\ last' = [op |-> "update_open_orders", id |-> 0, outcome |-> "none",
                    status |-> "", calls |-> 0, reason |-> "ok", order |-> NoOrder,
                    price |-> current_price, fails |-> fails]
        /\ UNCHANGED <<positions, risk_manager, pending, ws, fills, buys, core, client, loop>>

\* a caller cancels an order
CancelOrder ==
    \E id \in 1..MaxOrders :
    \E cancel_raises \in Consulted(book.mode = "live" /\ id \in DOMAIN book.open_orders,
                                   BOOLEAN, FALSE) :
    \E r \in {cancel_order(book, id, cancel_raises)} :
        /\ book.mode # "none"
        /\ book' = r.book
        /\ last' = [BookCall("cancel_order", id, r, NoPrice, 0) EXCEPT
                      !.outcome = r.reason, !.reason = "ok"]
        /\ UNCHANGED <<positions, risk_manager, pending, ws, fills, buys, core, client, loop>>

\* ---- SpecBook: one order-book executor and its callers
NextBook == Construct \/ BookExecuteOrder \/ UpdateOpenOrders \/ CancelOrder

SpecBook == Init /\ [][NextBook]_vars

\* ---- SpecPaper: a paper book that admits two open orders
ConstructPaper == ConstructBook({"paper"}, paper_max_open_orders)

\* a caller submits a valid limit order
LimitInputs ==
    {[symbol |-> "BTC-USD", side |-> sd, order_type |-> "limit", quantity |-> One] :
        sd \in {"buy", "sell"}}

PaperLimitOrder == SubmitOrder(LimitInputs)

NextPaper == ConstructPaper \/ PaperLimitOrder \/ UpdateOpenOrders

SpecPaper == Init /\ [][NextPaper]_vars

\* ------------------------------------- concurrent callers of execute_order
\* Two callers await execute_order on one executor and one pair; the event
\* loop runs a coroutine until it suspends: in check_order_risk, in the
\* gateway call, in the sleep between two attempts.  From the return of the
\* gateway to the return of execute_order nothing suspends (_update_position
\* awaits nothing), so the update is part of the step that resumes the caller.
RacePair == "BTC-USD"
\* the orders of the callers: buys of different sizes and prices, sells that
\* fit a position alone and exceed it together
RaceOrders ==
    {[side |-> "buy", size |-> One, price |-> One],
     [side |-> "buy", size |-> Two, price |-> Two],
     [side |-> "buy", size |-> Three, price |-> One],
     [side |-> "sell", size |-> One, price |-> One],
     [side |-> "sell", size |-> Two, price |-> One]}

InFlight(t) == pending[t].pc # "idle"

\* no tracked size is negative; the callers are followed as long as it holds
NoShortPosition == \A p \in DOMAIN positions : positions[p].size.c >= 0

\* what a step of caller t did
RaceEvent(t, event, outcome, task, before) ==
    [op |-> event, task |-> t, outcome |-> outcome, side |-> task.side,
     size |-> task.size, price |-> task.price, attempt |-> task.attempt,
     overlap |-> task.overlap, before |-> before]

\* execute_order up to its first suspension: validation, the position
\* limit of a sell, then the risk check or the gateway call
RaceCall(t) ==
    \E order \in RaceOrders :
        /\ ~InFlight(t) /\ NoShortPosition
        /\ fills + Cardinality({u \in Callers : InFlight(u)}) < MaxFills
        /\ validate_order_params(order.side, order.size, order.price, RacePair) = "ok"
        /\ LET task == [NoTask EXCEPT !.side = order.side, !.size = order.size,
                                      !.price = order.price]
               refused == InsufficientPosition(positions, order.side, order.size, RacePair)
           IN  /\ pending' = [pending EXCEPT ![t] =
                                IF refused THEN NoTask
                                ELSE [task EXCEPT !.pc = IF risk_manager = "configured"
                                                         THEN "risk" ELSE "gateway"]]
               /\ last' = RaceEvent(t, "call", IF refused THEN "PositionError"
                                               ELSE "suspended",
                                    task, get_position(positions, RacePair))
        /\ UNCHANGED <<positions, risk_manager, ws, fills, buys, core, client, loop, book>>

\* check_order_risk returns to caller t
RaceRiskReturns(t) ==
    \E risk_ok \in BOOLEAN :
        /\ pending[t].pc = "risk" /\ NoShortPosition
        /\ pending' = [pending EXCEPT ![t] =
                         IF RiskRejects(risk_manager, risk_ok) THEN NoTask
                         ELSE [@ EXCEPT !.pc = "gateway"]]
        /\ last' = RaceEvent(t, "risk", IF RiskRejects(risk_manager, risk_ok)
                                        THEN "ValidationError" ELSE "suspended",
                             pending[t], get_position(positions, RacePair))
        /\ UNCHANGED <<positions, risk_manager, ws, fills, buys, core, client, loop, book>>

\* the fill of caller t as the callers in flight see it
FillOf(task, before) ==
    [side |-> task.side, size |-> task.size, price |-> task.price, before |-> before]

\* the gateway call of caller t returns or raises; after a success
\* _update_position is applied to the ledger as it is now
RaceGatewayReturns(t) ==
    \E answer \in {"ok", "ExchangeError"} :
        /\ pending[t].pc = "gateway" /\ NoShortPosition
        /\ LET task   == pending[t]
               before == get_position(positions, RacePair)
               after  == update_position(positions, RacePair, task.side, task.size,
                                         task.price)
           IN  IF answer = "ok"
               THEN /\ positions' = after
                    /\ fills' = fills + 1
                    /\ buys' = [buys EXCEPT ![RacePair] =
                                  RecordFill(@, before, after[RacePair], task.side,
                                             task.size, task.price)]
                    /\ pending' = [u \in Callers |->
                                     IF u = t THEN NoTask
                                     ELSE IF InFlight(u)
                                     THEN [pending[u] EXCEPT
                                             !.overlap = Append(@, FillOf(task, before))]
                                     ELSE pending[u]]
                    /\ last' = RaceEvent(t, "gateway", "filled", task, before)
               ELSE /\ pending' = [pending EXCEPT ![t] =
                                     IF task.attempt < retry_attempts - 1
                                     THEN [@ EXCEPT !.pc = "sleep",
                                                    !.attempt = @ + 1]
                                     ELSE NoTask]
                    /\ last' = RaceEvent(t, "gateway",
                                         IF task.attempt < retry_attempts - 1
                                         THEN "suspended" ELSE "OrderExecutionError",
                                         task, before)
                    /\ UNCHANGED <<positions, fills, buys>>
        /\ UNCHANGED <<risk_manager, ws, core, client, loop, book>>

\* the sleep between two attempts of caller t ends: the next gateway call
RaceWakes(t) ==
    /\ pending[t].pc = "sleep" /\ NoShortPosition
    /\ pending' = [pending EXCEPT ![t].pc = "gateway"]
    /\ last' = RaceEvent(t, "wake", "suspended", pending[t],
                         get_position(positions, RacePair))
    /\ UNCHANGED <<positions, risk_manager, ws, fills, buys, core, client, loop, book>>

\* ---- SpecRace: two callers of execute_order on one pair
NextRace ==
    \E t \in Callers :
        RaceCall(t) \/ RaceRiskReturns(t) \/ RaceGatewayReturns(t) \/ RaceWakes(t)

SpecRace == Init /\ [][NextRace]_vars

\* --------------------------------------------------------- WebsocketClient
\* the number of connections one client opens
MaxInitialize == 2

\* WebsocketClient.initialize(): the connection, _authenticate, then the
\* heartbeat task; self.websocket is assigned before the authentication and
\* self.heartbeat_task is overwritten, the task it named is left running
initialize(w, transport_ok, auth_response) ==
    IF ~transport_ok THEN [ws |-> w, raises |-> "StreamingError"]
    ELSE LET opened == [w EXCEPT
                          !.sockets = Append(@, [open |-> TRUE,
                                                 authenticated |-> auth_response = "ok"]),
                          !.websocket = Len(w.sockets) + 1]
         IN  IF auth_response # "ok" THEN [ws |-> opened, raises |-> "StreamingError"]
             ELSE [ws |-> [opened EXCEPT !.tasks = Append(@, "sleeping"),
                                         !.heartbeat_task = Len(w.tasks) + 1,
                                         !.closed = FALSE],
                   raises |-> "none"]

\* `self.websocket and self.websocket.open`
SocketOpen(w) == w.websocket # 0 /\ w.sockets[w.websocket].open

\* WebsocketClient.close(): the task self.heartbeat_task names is cancelled
\* and awaited, then the socket is closed; an error of the socket's close()
\* is logged, and the socket is then closed or not
close_websocket(w, close_raises, still_open) ==
    [w EXCEPT
       !.tasks = [t \in DOMAIN @ |-> IF t = w.heartbeat_task THEN "done" ELSE @[t]],
       !.sockets = [s \in DOMAIN @ |->
                      IF s = w.websocket
                      THEN [@[s] EXCEPT !.open = close_raises /\ still_open /\ @]
                      ELSE @[s]],
       !.closed = TRUE]

\* the record of a step of the WebsocketClient
WsEvent(op, task, outcome) ==
    [op |-> op, task |-> task, outcome |-> outcome, socket |-> ws'.websocket]

WsUnchanged ==
    UNCHANGED <<positions, risk_manager, pending, fills, buys, core, client, loop, book>>

WsInitialize ==
    \E transport_ok \in BOOLEAN :
    \E auth_response \in Consulted(transport_ok, {"ok", "error"}, "ok") :
    \E r \in {initialize(ws, transport_ok, auth_response)} :
        /\ Len(ws.sockets) < MaxInitialize
        /\ ws' = r.ws
        /\ last' = WsEvent("initialize", 0,
                           IF r.raises = "none" THEN "returned" ELSE r.raises)
        /\ WsUnchanged

\* a heartbeat task wakes from its sleep: it sends a heartbeat on
\* self.websocket when that is open (an error of send is logged and the loop
\* goes on), and leaves the loop when it is not
WsHeartbeat ==
    \E t \in DOMAIN ws.tasks, send_raises \in BOOLEAN :
        /\ ws.tasks[t] = "sleeping"
        /\ SocketOpen(ws) \/ ~send_raises
        /\ ws' = IF SocketOpen(ws) THEN ws ELSE [ws EXCEPT !.tasks[t] = "done"]
        /\ last' = WsEvent("heartbeat", t,
                           IF ~SocketOpen(ws) THEN "stopped"
                           ELSE IF send_raises THEN "error" ELSE "sent")
        /\ WsUnchanged

\* the peer or the network ends a connection
WsSocketDrops ==
    \E s \in DOMAIN ws.sockets :
        /\ ws.sockets[s].open
        /\ ws' = [ws EXCEPT !.sockets[s].open = FALSE]
        /\ last' = WsEvent("drop", 0, "none")
        /\ WsUnchanged

WsClose ==
    \E close_raises \in Consulted(ws.websocket # 0, BOOLEAN, FALSE) :
    \E still_open \in Consulted(close_raises, BOOLEAN, FALSE) :
        /\ ws' = close_websocket(ws, close_raises, still_open)
        /\ last' = WsEvent("close", 0, "returned")
        /\ WsUnchanged

\* ---- SpecWs: one WebsocketClient, its sockets and its heartbeat tasks
NextWs == WsInitialize \/ WsHeartbeat \/ WsSocketDrops \/ WsClose

SpecWs == Init /\ [][NextWs]_vars

\* ---- claims on single calls, checked under Spec

\* the call that the step makes is an execute_order
IsExecuteOrder(call) == call.op = "execute_order"

\* the parameters the specification calls invalid
InvalidParams(call) ==
    \/ call.side \notin {"buy", "sell"}
    \/ call.size.c <= 0
    \/ call.price.c <= 0
    \/ call.pair = ""

\* a sell of more than the ledger holds for the pair (0 when never traded)
Oversell(call, pos) ==
    /\ call.side = "sell"
    /\ DecGt(DecimalOfFloat(call.size),
             IF call.pair \in DOMAIN pos THEN pos[call.pair].size ELSE Zero)

\* the gateway fails every call
AlwaysFails(script) == \A i \in DOMAIN script : script[i] # "ok"

C4_RetryBound ==
    [][ ( /\ IsExecuteOrder(last') /\ AlwaysFails(last'.script)
          /\ ~InvalidParams(last') /\ ~Oversell(last', positions)
          /\ last'.risk_answer # "false" )
        => /\ last'.gateway_calls = retry_attempts
           /\ retry_attempts = 3
           /\ last'.outcome = "OrderExecutionError"
           /\ positions' = positions
      ]_vars

\* a sell of a held position that the gateway failed three times
C4_Witness ==
    /\ IsExecuteOrder(last) /\ AlwaysFails(last.script)
    /\ last.script[1] = "ExchangeError"
    /\ last.side = "sell" /\ last.gateway_calls = 3
    /\ last.outcome = "OrderExecutionError"
    /\ last.pair \in DOMAIN positions /\ positions[last.pair].size = One

\* C5: execute_order with an invalid parameter (side not buy or sell,
\* size <= 0, price <= 0, empty pair) raises ValidationError with no gateway
\* call, no risk-manager call and no change of the ledger.
C5_ValidationShortCircuits ==
    [][ (IsExecuteOrder(last') /\ InvalidParams(last'))
        => /\ last'.outcome = "ValidationError"
           /\ last'.gateway_calls = 0
           /\ last'.risk_calls = 0
           /\ positions' = positions
      ]_vars

\* a buy of size 0 with a risk manager configured and a position held
C5_Witness ==
    /\ IsExecuteOrder(last) /\ last.outcome = "ValidationError"
    /\ last.side = "buy" /\ last.size = Zero /\ last.price = One /\ last.pair \in Pairs
    /\ risk_manager = "configured"
    /\ \E p \in DOMAIN positions : positions[p].size = One

\* C6: when the configured risk manager answers false, execute_order raises
\* ValidationError, places no order on the gateway and leaves the ledger
\* unchanged; the risk manager is called only for orders that passed
\* validation and the position limit.
C6_RiskRejection ==
    [][ IsExecuteOrder(last')
        => /\ last'.risk_answer = "false"
              => /\ last'.outcome = "ValidationError"
                 /\ last'.gateway_calls = 0
                 /\ positions' = positions
           /\ last'.risk_calls >= 1
              => /\ risk_manager = "configured"
                 /\ ~InvalidParams(last')
                 /\ ~Oversell(last', positions)
      ]_vars

\* the risk manager rejected a sell that the position covers
C6_Witness ==
    /\ IsExecuteOrder(last) /\ last.risk_answer = "false"
    /\ last.outcome = "ValidationError" /\ last.risk_calls = 1
    /\ last.side = "sell"
    /\ last.pair \in DOMAIN positions /\ positions[last.pair].size = One

\* C7: the retry wrapper retries transport and exchange failures only: when
\* the gateway call raises another kind of error (a ValidationError), the
\* gateway is called exactly once.
C7_OnlyExchangeErrorsRetried ==
    (IsExecuteOrder(last) /\ last.gateway_calls >= 1
        /\ last.script[1] = "ValidationError")
    => last.gateway_calls = 1

\* C8: a call that fails (validation, position limit, risk rejection or
\* exhausted retries) leaves the position of every pair unchanged, and a
\* filled order for a pair changes the position of that pair only.
C8_LedgerFrame ==
    [][ /\ last'.outcome # "filled" => positions' = positions
        /\ last'.outcome = "filled"
           => /\ DOMAIN positions' = DOMAIN positions \cup {last'.pair}
              /\ \A p \in DOMAIN positions \ {last'.pair} : positions'[p] = positions[p]
      ]_vars

\* an order filled for one pair while the other pair holds a position
C8_Witness ==
    /\ IsExecuteOrder(last) /\ last.outcome = "filled"
    /\ \E p \in DOMAIN positions : p # last.pair /\ positions[p].size = One

\* C10: adjust_position with a target equal to the tracked size makes no
\* gateway call, returns None and leaves the ledger unchanged, so that
\* repeating the call finds the same state and has the same outcome.
C10_NoOpAdjustment ==
    [][ ( /\ last'.op = "adjust_position"
          /\ DecEq(DecimalOfFloat(last'.target),
                   IF last'.pair \in DOMAIN positions
                   THEN positions[last'.pair].size ELSE Zero) )
        => /\ last'.outcome = "None"
           /\ last'.orders = 0
           /\ last'.gateway_calls = 0
           /\ positions' = positions
      ]_vars

\* an adjustment to the size that the pair already holds
C10_Witness ==
    /\ last.op = "adjust_position" /\ last.outcome = "None"
    /\ last.target = One
    /\ last.pair \in DOMAIN positions /\ positions[last.pair].size = One

\* ---- claims on adjust_position

\* the size the ledger holds for the pair before the call
HeldSize(call, pos) == IF call.pair \in DOMAIN pos THEN pos[call.pair].size ELSE Zero

\* C11: adjust_position with a target different from the tracked size issues
\* exactly one execute_order, a buy of (target - current) when target >
\* current and a sell of (current - target) when target < current, and when
\* it returns successfully the tracked size equals the target.
C11_AdjustReachesTarget ==
    [][ ( /\ last'.op = "adjust_position"
          /\ ~DecEq(DecimalOfFloat(last'.target), HeldSize(last', positions)) )
        => /\ last'.orders = 1
           /\ last'.side = IF DecGt(DecimalOfFloat(last'.target), HeldSize(last', positions))
                           THEN "buy" ELSE "sell"
           /\ DecEq(DecimalOfFloat(last'.size),
                    DecAbsDiff(DecimalOfFloat(last'.target), HeldSize(last', positions)))
           /\ last'.outcome = "filled"
              => DecEq(positions'[last'.pair].size, DecimalOfFloat(last'.target))
      ]_vars

\* C12: a ValidationError or PositionError raised inside execute_order while
\* adjust_position is running reaches the caller of adjust_position as the
\* same error type.
C12_TypedErrorsPropagate ==
    (last.op = "adjust_position" /\ last.raised \in {"ValidationError", "PositionError"})
    => last.outcome = last.raised

\* ---- claims on TradingCore.execute_trade

\* C13: when execute_order raises ValidationError or PositionError during a
\* direct execute_trade call, execute_trade raises that same typed error to
\* its caller, not a generic TradingException.
C13_TypedTradeErrors ==
    (last.op = "execute_trade" /\ last.raised \in {"ValidationError", "PositionError"})
    => last.outcome = last.raised

\* ---- claims about CoinbaseClient (SpecClient)
IsGetCurrentPrice == last'.op = "get_current_price"

CacheMiss == last'.pair \notin DOMAIN client.prices

\* C14: get_current_price(pair) performs a REST fetch if and only if the pair
\* is absent from the price cache when it is called; when the pair is cached
\* it returns the cached value, the value last written for the pair, and
\* leaves the client as it was.
C14_FetchIffMiss ==
    [][IsGetCurrentPrice =>
        /\ (last'.fetches = 1) <=> CacheMiss
        /\ ~CacheMiss => /\ last'.outcome = "returned"
                         /\ last'.value = client.prices[last'.pair]
                         /\ client' = client]_vars

\* the REST fetch of the call yields no usable price: transport failure,
\* empty response, no price field, a price that is no number, or a price <= 0
NoUsablePrice(rest) ==
    \/ rest.kind \in {"raises", "empty"}
    \/ rest.price = "missing"
    \/ FloatRaises(rest.price) # "none"
    \/ FloatValue(rest.price).c <= 0

\* C15: on a cache miss whose REST fetch yields no usable price,
\* get_current_price returns 0 without raising and leaves the price cache
\* unchanged, whatever the reason the price is unusable.
C15_OneFailurePolicy ==
    [][(IsGetCurrentPrice /\ last'.fetches = 1 /\ NoUsablePrice(last'.arg.rest)) =>
        /\ last'.outcome = "returned"
        /\ last'.value = Zero
        /\ client'.prices = client.prices]_vars

IsConnect == last'.op = "connect"

\* the answer at one of the two steps of this connect is an error response
ErrorResponse ==
    /\ last'.arg.transport_ok
    /\ \/ last'.arg.auth = "error"
       \/ last'.arg.auth = "ok" /\ last'.arg.sub = "error"

\* C16: connect() opens the transport, authenticates, then subscribes: the
\* subscribe request is sent only after the authentication request got a
\* non-error response, the client becomes connected only when both steps
\* succeeded, and an error response at either step makes connect fail with
\* the client not marked connected.
C16_ConnectOrder ==
    [][IsConnect =>
        /\ last'.arg.transport_ok =>
              /\ client'.websocket = "open"
              /\ client'.sent \in {<<"authenticate">>, <<"authenticate", "subscribe">>}
              /\ Len(client'.sent) = 2 => last'.arg.auth = "ok"
        /\ (client'.connected /\ ~client.connected) =>
              /\ last'.arg.auth = "ok" /\ last'.arg.sub = "ok"
              /\ client'.sent = <<"authenticate", "subscribe">>
        /\ ErrorResponse => last'.outcome = "ApiError" /\ ~client'.connected]_vars

IsMessage == last'.op = "message"

\* C17: while streaming, a message of type error aborts the receive loop and
\* surfaces an error to the caller of receive_data, so that no later message
\* of the stream is processed.
C17_ErrorAbortsLoop ==
    [][(IsMessage /\ last'.arg.type = "error") =>
        /\ last'.outcome \in {"ApiError", "StreamingError"}
        /\ client'.receiving = "idle"]_vars

\* a ticker message with a field that cannot be used: no product id, no
\* price, or a price or volume_24h that is no number
UnparsableTicker(message) ==
    /\ message.type = "ticker"
    /\ \/ Falsy(message.product_id) \/ Falsy(message.price)
       \/ FloatRaises(message.price) # "none"
       \/ message.volume_24h # "missing" /\ FloatRaises(message.volume_24h) # "none"

\* C18: a ticker message with a field that fails to parse is dropped as a
\* whole: the price cache and the ticker-data cache are left unchanged and
\* the receive loop goes on.
C18_BadTickerDropped ==
    [][(IsMessage /\ UnparsableTicker(last'.arg)) =>
        /\ client'.prices = client.prices
        /\ client'.ticker_data = client.ticker_data
        /\ client'.receiving = "running"]_vars

IsClose == last'.op = "close"

\* C19: close() never raises and is idempotent: in every state of the
\* client, and also when closing the transport fails, it returns normally
\* and leaves the client not connected, and a second close changes nothing.
C19_CloseNeverRaises ==
    [][IsClose =>
        /\ last'.outcome = "returned"
        /\ ~client'.connected
        /\ close(client', TRUE) = [client |-> client', raises |-> "none"]]_vars

\* ---- claims about the price feed of TradingCore (SpecCore)
\* C20: once the streaming client owned by the TradingCore has processed a
\* ticker for a pair carrying price x, TradingCore.get_current_price of the
\* pair returns x.
C20_StreamedPriceRead ==
    [][(/\ last.op = "stream_ticker"
        /\ last'.op = "core_get_current_price"
        /\ last'.pair = last.pair
        /\ core.feed = "CoinbaseStreaming") =>
            /\ last'.outcome = "returned"
            /\ last'.value = last.value]_vars

\* ---- claims about the strategies and the trading loop (SpecLoop)
\* this step is a run of the crossover strategy, recorded in last'
MaStep == loop.pc = "ma" /\ loop'.pc # "ma"

HistoryOf(trading_pair) ==
    IF trading_pair \in DOMAIN loop.price_data THEN loop.price_data[trading_pair]
    ELSE <<>>

\* C21: when the price history of the pair is shorter than the short or the
\* long window, run_moving_average_crossover_strategy produces no signal and
\* calls execute_trade zero times.
C21_NoTradeOnMissingData ==
    [][(MaStep /\ Len(HistoryOf(last'.pair)) < long_window) =>
        /\ last'.signal = 0
        /\ last'.trades = 0]_vars

\* the sums of the two windows, times the length of the other window: they
\* compare as the two means do
ShortMeanScaled ==
    DecMul(SumPrices(LastPrices(HistoryOf(last'.pair), short_window)), IntDec(long_window))
LongMeanScaled ==
    DecMul(SumPrices(LastPrices(HistoryOf(last'.pair), long_window)), IntDec(short_window))

\* C22: with enough history for both windows, the crossover strategy
\* requests exactly one buy when the short mean is above the long mean,
\* exactly one sell when it is below, and no trade when the means are equal.
C22_CrossoverSignal ==
    [][(MaStep /\ Len(HistoryOf(last'.pair)) >= long_window
               /\ Len(HistoryOf(last'.pair)) >= short_window) =>
        /\ DecGt(ShortMeanScaled, LongMeanScaled) =>
              last'.trades = 1 /\ last'.side = "buy"
        /\ DecLt(ShortMeanScaled, LongMeanScaled) =>
              last'.trades = 1 /\ last'.side = "sell"
        /\ DecEq(ShortMeanScaled, LongMeanScaled) =>
              last'.trades = 0 /\ last'.signal = 0]_vars

\* a crossover run has requested a sell: the long mean was above the short one
C22_Witness ==
    /\ last.op = "strategy" /\ last.strategy = "ma"
    /\ last.trades = 1 /\ last.side = "sell"

\* C23: an execute_trade called while daily_stats.pnl is a loss larger than
\* the configured max daily loss sends no order to the OrderExecutor and
\* leaves is_running false
C23_DailyLossKillSwitch ==
    [][(/\ last'.op = "execute_trade"
        /\ DecLt(core.pnl, DecSub(Zero, max_daily_loss))
        /\ last'.outcome \notin {"ConfigurationError", "ValueError", "TradingException"})
       => (last'.orders = 0 /\ ~core'.is_running)]_vars

\* C24: a strategy that raises sends the loop to its error backoff and never
\* ends it; the loop ends only when is_running is false; and from the backoff
\* the loop starts another iteration unless is_running has become false
C24_LoopSurvivesExceptions ==
    /\ [][(/\ loop.pc \in {"ma", "rsi"} /\ loop'.pc \notin {"ma", "rsi"}
           /\ last'.raises # "none") => loop'.pc = "backoff"]_vars
    /\ [][(loop.pc # "done" /\ loop'.pc = "done") => ~core.is_running]_vars
    /\ (loop.pc = "backoff") ~> (loop.pc = "ma" \/ ~core.is_running)

\* the loop is in the backoff after a strategy raised, and still running
C24_Witness ==
    /\ loop.pc = "backoff" /\ core.is_running
    /\ last.op = "strategy" /\ last.raises = "TradingException"

\* every strategy of every configured pair
AllEvaluations == {<<trading_pairs[i], s>> : i \in 1..Len(trading_pairs), s \in {"ma", "rsi"}}

\* C25: when an iteration of the trading loop ends, in the sleep or in the
\* error backoff, both strategies have been run for every configured pair
C25_EveryPairEvaluated ==
    [][(loop.pc \in {"ma", "rsi"} /\ loop'.pc \in {"sleep", "backoff"})
       => loop'.evaluated = AllEvaluations]_vars

\* C26: shutdown() returns without raising, also when it tried to close a
\* position and failed, and leaves is_running false; after it the trading
\* loop starts no new iteration and eventually ends
C26_ShutdownCompletes ==
    /\ [][(last'.op = "shutdown" /\ last' # last)
          => (last'.outcome = "returned" /\ last'.raises = "none"
              /\ ~core'.is_running)]_vars
    /\ [][loop.shut_down => ~(loop.pc = "check" /\ loop'.pc = "ma")]_vars
    /\ loop.shut_down ~> (loop.pc \in {"none", "done"})

\* shutdown tried to close a position, failed, and returned while the loop
\* was in the middle of an iteration
C26_Witness ==
    /\ last.op = "shutdown" /\ last.trades > 0 /\ last.orders < last.trades
    /\ loop.shut_down /\ loop.pc \in {"ma", "rsi"}

\* C27: with the flatten-on-shutdown policy configured (max position size
\* zero), after shutdown() the position the OrderExecutor tracks for every
\* configured pair has size 0
C27_ShutdownFlattens ==
    [][(/\ last'.op = "shutdown" /\ last' # last
        /\ DecEq(loop.max_position_size, Zero))
       => \A p \in Pairs : DecEq(get_position(positions', p).size, Zero)]_vars

\* C28: after shutdown() has completed the receive loop of the stream
\* processes no message
C28_StreamCancelledOnShutdown ==
    [][loop.shut_down => ~(last'.op = "stream_message" /\ last' # last)]_vars

\* C29: an execute_trade that returns a filled result adds 1 to
\* daily_stats.trades and size * price to daily_stats.volume; an
\* execute_trade that fails leaves trades, volume and pnl as they were
C29_StatsOnlyAfterFill ==
    [][(last'.op = "execute_trade" /\ last' # last) =>
         IF last'.outcome = "filled"
         THEN /\ core'.trades = core.trades + 1
              /\ DecEq(core'.volume,
                       DecAdd(core.volume, DecMul(DecimalOfFloat(last'.size),
                                                  DecimalOfFloat(last'.price))))
              /\ core'.pnl = core.pnl
         ELSE /\ core'.trades = core.trades
              /\ core'.volume = core.volume
              /\ core'.pnl = core.pnl]_vars

\* a trade was filled and counted, with a volume that is not zero
C29_Witness ==
    /\ last.op = "execute_trade" /\ last.outcome = "filled"
    /\ core.trades > 0 /\ DecGt(core.volume, Zero)

\* ---- claims about the order-book executor (SpecBook)
\* C30: the number of open orders never exceeds risk_config.max_open_orders,
\* and an order submitted while the number equals the maximum is rejected
\* with ValidationError and recorded nowhere
C30_OpenOrdersBounded ==
    /\ [](Cardinality(DOMAIN book.open_orders) <= max_open_orders)
    /\ [][(/\ last'.op = "execute_order"
           /\ Cardinality(DOMAIN book.open_orders) = max_open_orders)
          => (/\ last'.outcome = "ValidationError"
              /\ book'.open_orders = book.open_orders
              /\ book'.order_history = book.order_history)]_vars

\* the book holds the maximum of open orders and has just rejected an order
\* for that reason
C30_Witness ==
    /\ last.op = "execute_order" /\ last.reason = "count"
    /\ last.outcome = "ValidationError"
    /\ Cardinality(DOMAIN book.open_orders) = max_open_orders

\* a step of execute_order of the paper book for an order that passed
\* validate_order
PaperOrderStep == last'.op = "execute_order" /\ book.mode = "paper" /\ last'.reason = "ok"

\* the returned market order is filled at the price of the client and
\* recorded in order_history, not in open_orders
MarketFilled ==
    /\ last'.status = "filled"
    /\ last'.order.filled_quantity = last'.order.quantity
    /\ last'.price # NoPrice /\ last'.order.avg_fill_price = last'.price
    /\ last'.id \in DOMAIN book'.order_history
    /\ book'.order_history[last'.id] = last'.order
    /\ book'.open_orders = book.open_orders

\* the returned limit order is open and recorded in open_orders, not in
\* order_history
LimitOpened ==
    /\ last'.status = "open"
    /\ last'.id \in DOMAIN book'.open_orders
    /\ book'.open_orders[last'.id] = last'.order
    /\ book'.order_history = book.order_history

C36_BooksDisjoint ==
    /\ DOMAIN book.open_orders \cap DOMAIN book.order_history = {}
    /\ \A i \in DOMAIN book.order_history :
           book.order_history[i].status \in {"filled", "canceled"}
    /\ \A i \in DOMAIN book.open_orders :
           book.open_orders[i].status \notin {"filled", "canceled", "rejected"}

\* ---- claims about the retries of execute_order (Spec)
\* the first attempt (1-based) at which the gateway succeeds
FirstSuccess(script) ==
    CHOOSE k \in DOMAIN script :
        script[k] = "ok" /\ \A i \in 1..(k - 1) : script[i] # "ok"

\* the call was an execute_order that reached the gateway
ReachedGateway(call, pos) ==
    /\ IsExecuteOrder(call) /\ ~InvalidParams(call) /\ ~Oversell(call, pos)
    /\ call.risk_answer # "false"

\* C32: when the gateway first succeeds on attempt k, execute_order makes
\* exactly k gateway calls, sleeps retry_delay*i after the i-th failed
\* attempt, returns filled and applies the position update exactly once;
\* when every attempt fails it has slept retry_attempts - 1 times, never
\* after the final attempt
C32_RetrySchedule ==
    [][ReachedGateway(last', positions) =>
          IF AlwaysFails(last'.script)
          THEN /\ last'.sleeps = [i \in 1..(retry_attempts - 1) |-> retry_delay * i]
               /\ fills' = fills
          ELSE LET k == FirstSuccess(last'.script)
               IN  /\ last'.gateway_calls = k
                   /\ last'.sleeps = [i \in 1..(k - 1) |-> retry_delay * i]
                   /\ last'.outcome = "filled"
                   /\ fills' = fills + 1
                   /\ positions' = update_position(positions, last'.pair, last'.side,
                                                    last'.size, last'.price)]_vars

\* a buy was filled at the third attempt, after sleeps of 1 and 2
C32_Witness ==
    /\ IsExecuteOrder(last) /\ last.outcome = "filled" /\ last.side = "buy"
    /\ last.script = FailsFirst(2, "ExchangeError")
    /\ last.gateway_calls = 3 /\ last.sleeps = <<retry_delay, 2 * retry_delay>>
    /\ last.pair \in DOMAIN positions /\ fills >= 1

\* ---- claims about the paper book with two open orders (SpecPaper)

\* the order is a buy and the price is at or below its limit, or a sell and
\* the price is at or above its limit
PriceReachesLimit(order, current_price) ==
    \/ order.side = "buy" /\ DecLe(current_price, order.price)
    \/ order.side = "sell" /\ DecLe(order.price, current_price)

\* C37: update_open_orders of the paper book fills an open limit order
\* exactly when it is a buy and the price read for it is at or below its
\* limit, or a sell and the price is at or above its limit; a filled order
\* moves from open_orders to order_history with avg_fill_price its limit and
\* filled_quantity its quantity; every other open order, the ones whose price
\* read raised included, is left unchanged
C37_PaperFills ==
    [][last'.op = "update_open_orders" /\ book.mode = "paper" =>
         LET ids == SortedIds(DOMAIN book.open_orders)
         IN  /\ \A k \in 1..Len(ids) :
                    LET id    == ids[k]
                        order == book.open_orders[id]
                    IN  IF k > last'.fails /\ order.order_type = "limit"
                           /\ PriceReachesLimit(order, last'.price)
                        THEN /\ id \notin DOMAIN book'.open_orders
                             /\ id \in DOMAIN book'.order_history
                             /\ book'.order_history[id] =
                                    [order EXCEPT !.status = "filled",
                                                  !.filled_quantity = order.quantity,
                                                  !.avg_fill_price = order.price]
                        ELSE /\ id \in DOMAIN book'.open_orders
                             /\ book'.open_orders[id] = order
                             /\ id \in DOMAIN book'.order_history
                                    <=> id \in DOMAIN book.order_history
                             /\ id \in DOMAIN book.order_history
                                    => book'.order_history[id] = book.order_history[id]
             /\ DOMAIN book'.open_orders \subseteq DOMAIN book.open_orders
             /\ \A id \in DOMAIN book.order_history \ DOMAIN book.open_orders :
                    /\ id \in DOMAIN book'.order_history
                    /\ book'.order_history[id] = book.order_history[id]
             /\ DOMAIN book'.order_history
                    \subseteq DOMAIN book.order_history \cup DOMAIN book.open_orders]_vars

\* of a buy and a sell that were open at limit 2, an update at price 3 filled
\* the sell and left the buy open
C37_Witness ==
    /\ book.mode = "paper" /\ last.op = "update_open_orders"
    /\ last.price = Three /\ last.fails = 0
    /\ \E i \in DOMAIN book.open_orders, j \in DOMAIN book.order_history :
           /\ i # j
           /\ book.open_orders[i].side = "buy" /\ book.open_orders[i].status = "open"
           /\ book.order_history[j].side = "sell"
           /\ book.order_history[j].status = "filled"
           /\ book.order_history[j].avg_fill_price = Two

\* ---- further claims about the order-book executor (SpecBook)

\* the call was execute_order of a well-formed order that validate_order
\* refuses in the book the call found
RefusedOrderStep ==
    /\ last'.op = "execute_order"
    /\ last'.order.side \in {"buy", "sell"}
    /\ last'.order.order_type \in {"market", "limit"}
    /\ validate_order(book, last'.order) # "ok"

\* C38: execute_order of an order that fails validate_order (pair not
\* configured, quantity above max_position_size, too many open orders) raises
\* ValidationError, calls the exchange client not once and leaves both books
\* as they were; cancel_order of an id that is not in open_orders returns
\* False and changes nothing
C38_RefusalsChangeNothing ==
    [][/\ RefusedOrderStep =>
            /\ last'.outcome = "ValidationError"
            /\ last'.calls = 0
            /\ book'.open_orders = book.open_orders
            /\ book'.order_history = book.order_history
       /\ last'.op = "cancel_order" /\ last'.id \notin DOMAIN book.open_orders =>
            /\ last'.outcome = "False"
            /\ last'.calls = 0
            /\ book' = book]_vars

\* an order was refused for the number of open orders while one order was open
C38_Witness ==
    /\ last.op = "execute_order" /\ last.outcome = "ValidationError"
    /\ last.order.symbol = "BTC-USD" /\ last.order.quantity = One
    /\ last.order.side \in {"buy", "sell"}
    /\ Cardinality(DOMAIN book.open_orders) = book.max_open_orders
    /\ last.calls = 0

\* ---- claims about concurrent callers of execute_order (SpecRace)

\* C33: when two execute_order calls for one pair run concurrently,
\* interleaved at their suspension points, the tracked size never becomes
\* negative: two sells that each fit the position but together exceed it are
\* never both applied
C33_NoShortUnderConcurrency == NoShortPosition

\* the step completes a buy of one caller during which exactly one fill of
\* the other caller, a buy, was applied
SecondOfTwoBuys ==
    /\ last'.op = "gateway" /\ last'.outcome = "filled" /\ last'.side = "buy"
    /\ Len(last'.overlap) = 1 /\ last'.overlap[1].side = "buy"

\* the position before the two buys, the first fill, and the exact totals
\* as integers: sizes in tenths, prices in units of 10^(1 - prec)
PriorOfTwo(call) == call.overlap[1].before
FirstFill(call) == call.overlap[1]
PriceUnits(d) == d.c * Pow10(d.e + DecimalPrec - 1)
TotalSize(call) ==
    SizeTenths(PriorOfTwo(call).size) + SizeTenths(DecimalOfFloat(FirstFill(call).size))
        + SizeTenths(DecimalOfFloat(call.size))
TotalValue(call) ==
    SizeTenths(PriorOfTwo(call).size) * PriceUnits(PriorOfTwo(call).entry_price)
        + SizeTenths(DecimalOfFloat(FirstFill(call).size))
              * PriceUnits(DecimalOfFloat(FirstFill(call).price))
        + SizeTenths(DecimalOfFloat(call.size)) * PriceUnits(DecimalOfFloat(call.price))

\* the position after the two buys, applied one after the other
BuyThenBuy(prior, first, second) ==
    update_buy(update_buy(prior, DecimalOfFloat(first.size), DecimalOfFloat(first.price)),
               DecimalOfFloat(second.size), DecimalOfFloat(second.price))

\* one of the two updates, in one or the other order, rounded a result
TwoBuysInexact(prior, first, second) ==
    \/ BuyInexact(prior, DecimalOfFloat(first.size), DecimalOfFloat(first.price))
    \/ BuyInexact(update_buy(prior, DecimalOfFloat(first.size),
                                    DecimalOfFloat(first.price)),
                  DecimalOfFloat(second.size), DecimalOfFloat(second.price))

\* no update is lost: the size is the prior size plus both buys
BothBuysCounted ==
    SizeTenths(positions'[RacePair].size) = TotalSize(last')

\* C34 as stated: when two concurrent buys of one pair both succeed, no
\* update is lost and the final position does not depend on the order in
\* which their gateway calls complete: the size is the prior size plus both
\* sizes and entry_price is the size-weighted average of the prior position
\* and both fills
C34_Original ==
    [][SecondOfTwoBuys =>
          /\ BothBuysCounted
          /\ positions'[RacePair]
                = BuyThenBuy(PriorOfTwo(last'), last', FirstFill(last'))
          /\ DecEq(positions'[RacePair].entry_price,
                   DecDiv(Norm(TotalValue(last'), 0 - DecimalPrec),
                          Norm(TotalSize(last'), -1)))]_vars

\* C34, amended: no update is lost, the size is the prior size plus both
\* sizes and the position is the one of the two buys applied one after the
\* other in the order of completion; entry_price is the weighted average up
\* to the rounding of the Decimal operations: when no operation of the two
\* updates, in either order, rounded, the position is the same in both
\* orders and entry_price * size equals the total value exactly, and in every
\* case entry_price is within the relative error 6 * 10^(1 - prec) of the
\* exact average
C34_NoLostUpdate ==
    [][SecondOfTwoBuys =>
          LET prior == PriorOfTwo(last')
              first == FirstFill(last')
              entry == positions'[RacePair].entry_price
          IN  /\ BothBuysCounted
              /\ positions'[RacePair] = BuyThenBuy(prior, first, last')
              /\ ~TwoBuysInexact(prior, first, last') /\ ~TwoBuysInexact(prior, last', first)
                    => /\ positions'[RacePair] = BuyThenBuy(prior, last', first)
                       /\ PriceUnits(entry) * TotalSize(last') = TotalValue(last')
              /\ Distance(PriceUnits(entry) * TotalSize(last'), TotalValue(last'))
                     * Pow10(DecimalPrec - 1)
                   <= 6 * TotalValue(last')]_vars

\* a buy completed after a buy of the other caller that was applied while it
\* was suspended, on a position that was not flat
C34_Witness ==
    /\ last.op = "gateway" /\ last.outcome = "filled" /\ last.side = "buy"
    /\ Len(last.overlap) = 1 /\ last.overlap[1].side = "buy"
    /\ last.overlap[1].before.size = One
    /\ last.before.size # One
    /\ SizeTenths(positions[RacePair].size)
          = SizeTenths(One) + SizeTenths(last.overlap[1].size) + SizeTenths(last.size)

\* ---- a further claim about the CoinbaseClient (SpecClient)

\* C35: after connect() has failed at the transport, the authentication or
\* the subscription step the client is not marked connected, and a
\* receive_data() that follows refuses to consume messages: it raises
C35_FailedConnectFaults ==
    [][/\ last'.op = "connect" /\ last'.outcome = "ApiError" => ~client'.connected
       /\ last.op = "connect" /\ last.outcome = "ApiError" /\ last'.op = "receive_data"
             => last'.outcome = "ApiError" /\ client'.receiving = "idle"]_vars

\* ---- a claim about the WebsocketClient (SpecWs)

\* C39: a heartbeat task is started only by an initialize that opened the
\* connection and authenticated; a task sends a heartbeat only while the
\* socket is open and leaves its loop when it finds the socket not open;
\* once close() has returned no heartbeat is sent
C39_HeartbeatLifecycle ==
    [][/\ Len(ws'.tasks) > Len(ws.tasks) =>
            /\ last'.op = "initialize" /\ last'.outcome = "returned"
            /\ SocketOpen(ws') /\ ws'.sockets[ws'.websocket].authenticated
       /\ last'.op = "heartbeat" /\ last'.outcome = "sent" => SocketOpen(ws)
       /\ last'.op = "heartbeat" /\ ~SocketOpen(ws) => ws'.tasks[last'.task] = "done"
       /\ last'.op = "heartbeat" /\ ws.closed => last'.outcome # "sent"]_vars

====
